---- MODULE Spec2Model ----
(***************************************************************************)
(* Clear Path Entity: the source-resolution and orchestration engine.      *)
(*                                                                         *)
(* The module models                                                       *)
(*   - the text helpers the adapters rely on (str.strip, str.upper),       *)
(*   - the six adapters' match classifiers and the confidence formula,     *)
(*   - every adapter's search, from its fetch to its result,               *)
(*   - the wrappers of the interpretation capability (llm/client.py),      *)
(*   - the naming rule engine, and                                         *)
(*   - the orchestrator (run_search, _run_state, search_uspto) under the   *)
(*     job runner of main.py (create_search, _run_and_signal).             *)
(*                                                                         *)
(* Text is a sequence of tokens: a token is a word or one blank.  Numbers  *)
(* with two decimals are integers counting hundredths (0.1 is 10).         *)
(***************************************************************************)
EXTENDS Integers, Sequences, FiniteSets, TLC

VARIABLES
    jobs,           \* table jobs: job id -> row (models.py Job)
    state_results,  \* table state_results: the rows, in commit order
    uspto_results,  \* table uspto_results: the rows, in commit order
    runner,         \* job id -> position of _run_and_signal for that job
    tasks,          \* job id -> the coroutines run_search handed to gather
    active_jobs,    \* _active_jobs: the job ids that are keys of the dict
    done_events,    \* the job ids whose asyncio.Event has been set
    probe           \* call under test of a pure function: its input and output

vars == <<jobs, state_results, uspto_results, runner, tasks, active_jobs,
          done_events, probe>>

orch_vars == <<jobs, state_results, uspto_results, runner, tasks, active_jobs,
               done_events>>

-----------------------------------------------------------------------------
(* Text                                                                    *)

Blank == " "

\* str.upper on one token
UpperTok(t) ==
    CASE t = "acme"  -> "ACME"
      [] t = "Acme"  -> "ACME"
      [] t = "bank"  -> "BANK"
      [] t = "Bank"  -> "BANK"
      [] t = "inc"   -> "INC"
      [] t = "Inc"   -> "INC"
      [] t = "group" -> "GROUP"
      [] t = "Group" -> "GROUP"
      [] t = "trust" -> "TRUST"
      [] t = "Trust" -> "TRUST"
      [] t = "llc"   -> "LLC"
      [] t = "de"    -> "DE"
      [] t = "ny"    -> "NY"
      [] t = "warning" -> "WARNING"
      [] t = "info"    -> "INFO"
      [] t = "low"     -> "LOW"
      [] t = "medium"  -> "MEDIUM"
      [] t = "high"    -> "HIGH"
      [] t = "unknown" -> "UNKNOWN"
      [] OTHER       -> t

\* str.lower on one token
LowerTok(t) ==
    CASE t = "ACME"  -> "acme"
      [] t = "Acme"  -> "acme"
      [] t = "BANK"  -> "bank"
      [] t = "Bank"  -> "bank"
      [] t = "INC"   -> "inc"
      [] t = "Inc"   -> "inc"
      [] t = "GROUP" -> "group"
      [] t = "Group" -> "group"
      [] t = "TRUST" -> "trust"
      [] t = "Trust" -> "trust"
      [] t = "LLC"   -> "llc"
      [] t = "Active"    -> "active"
      [] t = "ACTIVE"    -> "active"
      [] t = "Dissolved" -> "dissolved"
      [] t = "DISSOLVED" -> "dissolved"
      [] t = "INACT"     -> "inact"
      [] t = "Banks"     -> "banks"
      [] t = "DE"        -> "de"
      [] t = "NY"        -> "ny"
      [] t = "BANKING"   -> "banking"
      [] OTHER       -> t

Upper(s) == [i \in 1..Len(s) |-> UpperTok(s[i])]

Lower(s) == [i \in 1..Len(s) |-> LowerTok(s[i])]

RECURSIVE LStrip(_)
LStrip(s) == IF s # <<>> /\ Head(s) = Blank THEN LStrip(Tail(s)) ELSE s

RECURSIVE RStrip(_)
RStrip(s) ==
    IF s # <<>> /\ s[Len(s)] = Blank THEN RStrip(SubSeq(s, 1, Len(s) - 1)) ELSE s

\* str.strip: leading and trailing blanks removed
Strip(s) == RStrip(LStrip(s))

\* list[:n]
Take(s, n) == SubSeq(s, 1, IF Len(s) < n THEN Len(s) ELSE n)

Range(s) == {s[i] : i \in 1..Len(s)}

\* [f(x) for x in s]
MapSeq(s, F(_)) == [i \in 1..Len(s) |-> F(s[i])]

-----------------------------------------------------------------------------
(* adapters/base.py                                                        *)

EntityMatch(name, entity_type, status, file_number) ==
    [name |-> name, entity_type |-> entity_type, status |-> status,
     file_number |-> file_number, registered |-> <<>>]

\* AdapterResult with the dataclass defaults for the fields a caller omits
AdapterResult(code, availability, confidence, notes) ==
    [state_code |-> code, availability |-> availability,
     confidence |-> confidence, raw_matches |-> <<>>, similar_names |-> <<>>,
     flags |-> <<>>, notes |-> notes, extraction_method |-> "primary",
     source_type |-> "web_form"]

\* extraction_scores.get(extraction_method, 0.4), in tenths
ExtractionScore(m) ==
    CASE m = "primary"  -> 10
      [] m = "fallback" -> 7
      [] m = "llm"      -> 4
      [] m = "failed"   -> 1
      [] OTHER          -> 4

\* clarity_scores.get(result_clarity, 0.4), in tenths
ClarityScore(c) ==
    CASE c = "clear"     -> 10
      [] c = "inferred"  -> 7
      [] c = "ambiguous" -> 4
      [] OTHER           -> 4

\* a formula that cuts the sum to two decimals where the code rounds it
BuildConfidence_truncating(extraction_method, result_clarity) ==
    (ExtractionScore(extraction_method) * 400 + 85 * 25
     + ClarityScore(result_clarity) * 250 + 1000) \div 100

\* round(extraction*0.40 + 0.85*0.25 + clarity*0.25 + 1.0*0.10, 2): the sum is
\* taken in ten-thousandths and rounded to the nearest hundredth
BuildConfidence(extraction_method, result_clarity) ==
    LET sum == ExtractionScore(extraction_method) * 400 + 85 * 25
               + ClarityScore(result_clarity) * 250 + 1000
    IN  (sum + 50) \div 100

\* the literal confidence=0.1 of every error result
ErrorConfidence == 10

-----------------------------------------------------------------------------
(* Match classification: the six _classify methods                         *)

NamesOf(ms) == [i \in 1..Len(ms) |-> ms[i].name]

\* a classifier that forgets to take the exact matches out of the similar names
NotIn_keeps_exact(ms, exact) == ms

\* [m for m in matches if m not in exact]
NotIn(ms, exact) == SelectSeq(ms, LAMBDA m : m \notin Range(exact))

AdvisoryNote == "All exact matches are inactive - name may be available"

\* when all_inactive: note += " All exact matches are inactive ..."
ExactNote(all_inactive) ==
    IF all_inactive THEN <<"Exact match found", AdvisoryNote>>
    ELSE <<"Exact match found">>

CA_INACTIVE ==
    {<<"dissolved">>, <<"cancelled">>, <<"canceled">>, <<"forfeited">>,
     <<"sos", Blank, "canceled">>, <<"sos", Blank, "cancelled">>, <<"void">>}

FL_INACTIVE_STATUSES ==
    {<<"inact">>, <<"inactive">>, <<"cross", Blank, "rf">>, <<"dissolved">>,
     <<"revoked">>, <<"cancelled">>, <<"canceled">>, <<"merged">>,
     <<"converted">>, <<"withdrawn">>}

WA_INACTIVE_STATUSES ==
    {<<"inactive">>, <<"dissolved">>, <<"cancelled">>, <<"canceled">>,
     <<"revoked">>, <<"delinquent">>, <<"expired">>, <<"withdrawn">>,
     <<"merged">>, <<"terminated">>}

\* the result of an exact match, shared shape of all six classifiers
TakenResult(code, exact, similar, notes, source_type) ==
    [AdapterResult(code, "taken", BuildConfidence("primary", "clear"), notes)
     EXCEPT !.raw_matches = exact, !.similar_names = NamesOf(similar),
            !.source_type = source_type]

SimilarResult(code, matches, source_type) ==
    [AdapterResult(code, "similar", BuildConfidence("primary", "inferred"),
                   <<"similar name(s) found. No exact match.">>)
     EXCEPT !.raw_matches = matches, !.similar_names = NamesOf(matches),
            !.source_type = source_type]

CA_classify(matches, search_name) ==
    IF matches = <<>>
    THEN [AdapterResult("CA", "available", BuildConfidence("primary", "clear"),
                        <<"No matching entities found in California registry.">>)
          EXCEPT !.source_type = "api"]
    ELSE LET name_upper == Upper(Strip(search_name))
             exact == SelectSeq(matches,
                                LAMBDA m : Upper(Strip(m.name)) = name_upper)
             similar == NotIn(matches, exact)
             all_inactive ==
                 \A i \in 1..Len(exact) :
                     Lower(exact[i].status) \in CA_INACTIVE
         IN  IF exact # <<>>
             THEN TakenResult("CA", exact, similar, ExactNote(all_inactive), "api")
             ELSE SimilarResult("CA", matches, "api")

DE_classify(matches, search_name) ==
    LET name_upper == Strip(Upper(search_name))
        exact == SelectSeq(matches,
                           LAMBDA m : Strip(Upper(m.name)) = name_upper)
    IN  IF exact # <<>>
        THEN TakenResult("DE", exact, NotIn(matches, exact),
                         <<"Exact match found">>, "web_form")
        ELSE SimilarResult("DE", matches, "web_form")

FL_classify(matches, search_name) ==
    LET name_upper == Upper(Strip(search_name))
        exact == SelectSeq(matches,
                           LAMBDA m : Upper(Strip(m.name)) = name_upper)
        similar == NotIn(matches, exact)
        active_exact ==
            SelectSeq(exact,
                      LAMBDA m : Lower(m.status) \notin FL_INACTIVE_STATUSES)
    IN  IF exact # <<>>
        THEN TakenResult("FL", exact, similar, ExactNote(active_exact = <<>>),
                         "web_form")
        ELSE SimilarResult("FL", matches, "web_form")

NJ_classify(matches, search_name) ==
    LET name_upper == Upper(Strip(search_name))
        exact == SelectSeq(matches,
                           LAMBDA m : Upper(Strip(m.name)) = name_upper)
        similar == NotIn(matches, exact)
    IN  IF exact # <<>>
        THEN TakenResult("NJ", exact, similar, <<"Exact match found">>, "web_form")
        ELSE SimilarResult("NJ", matches, "web_form")

NY_classify(matches, search_name) ==
    LET name_upper == Strip(Upper(search_name))
        exact == SelectSeq(matches,
                           LAMBDA m : Strip(Upper(m.name)) = name_upper)
    IN  IF exact # <<>>
        THEN TakenResult("NY", exact, NotIn(matches, exact),
                         <<"Exact match found">>, "web_form")
        ELSE SimilarResult("NY", matches, "web_form")

WA_classify(matches, search_name) ==
    LET name_upper == Upper(Strip(search_name))
        exact == SelectSeq(matches,
                           LAMBDA m : Upper(Strip(m.name)) = name_upper)
        similar == NotIn(matches, exact)
        active_exact ==
            SelectSeq(exact,
                      LAMBDA m : Lower(m.status) \notin WA_INACTIVE_STATUSES)
    IN  IF exact # <<>>
        THEN TakenResult("WA", exact, similar, ExactNote(active_exact = <<>>),
                         "web_form")
        ELSE SimilarResult("WA", matches, "web_form")

\* the classifier of the adapter registered under a source id
Classify(code, matches, search_name) ==
    CASE code = "CA" -> CA_classify(matches, search_name)
      [] code = "DE" -> DE_classify(matches, search_name)
      [] code = "FL" -> FL_classify(matches, search_name)
      [] code = "NJ" -> NJ_classify(matches, search_name)
      [] code = "NY" -> NY_classify(matches, search_name)
      [] code = "WA" -> WA_classify(matches, search_name)

-----------------------------------------------------------------------------
(* JSON values, as json.loads and resp.json() return them                  *)

JNull == [kind |-> "null", val |-> <<>>]
JInt(n) == [kind |-> "int", val |-> n]
JText(s) == [kind |-> "str", val |-> s]
JList(xs) == [kind |-> "list", val |-> xs]
\* a JSON object: val is a function from its keys to their values
JDict(f) == [kind |-> "dict", val |-> f]

\* Python truth value: None, 0, "" , [] and {} are false
Truthy(j) ==
    CASE j.kind = "null" -> FALSE
      [] j.kind = "int"  -> j.val # 0
      [] j.kind = "str"  -> j.val # <<>>
      [] j.kind = "list" -> j.val # <<>>
      [] j.kind = "dict" -> DOMAIN j.val # {}

\* dict.get(key): None when the key is missing
Get(d, key) == IF key \in DOMAIN d THEN d[key] ELSE JNull

\* dict.get(key, default)
GetOr(d, key, default) == IF key \in DOMAIN d THEN d[key] ELSE default

\* a call that returned a value, and a call that raised
Returned(v) == [raised |-> FALSE, value |-> v]
Raised(exc) == [raised |-> TRUE, exc |-> exc]

-----------------------------------------------------------------------------
(* llm/client.py: the wrappers of the interpretation capability            *)
(* A call of the capability is [fault, content]: messages.create raises    *)
(* (fault), or answers with a list of text blocks; a block's text is       *)
(* [json, value]: text json.loads rejects, or the value it parses to.      *)

DefaultInterpretation ==
    JDict([availability |-> "unknown", similar_names |-> <<>>,
           clarity |-> "ambiguous",
           notes |-> <<"LLM response could not be parsed.">>])

DefaultSimilarity(similar_names) ==
    JDict([risk_level |-> JText(<<"unknown">>),
           conflicting_names |-> similar_names,
           explanation |-> "Could not parse similarity analysis.",
           recommendation |-> "Review similar names manually."])

\* json.loads(response.content[0].text)
ParseFirstBlock(call) ==
    IF call.content = <<>> THEN Raised("IndexError")
    ELSE IF ~call.content[1].json THEN Raised("JSONDecodeError")
    ELSE Returned(call.content[1].value)

\* async: messages.create is awaited outside the try
interpret_state_page(call) ==
    IF call.fault THEN Raised("APIError")
    ELSE LET parsed == ParseFirstBlock(call)
         IN  IF parsed.raised THEN Returned(DefaultInterpretation) ELSE parsed

\* sync: the whole body is inside try ... except Exception
interpret_state_page_sync(call) ==
    IF call.fault THEN Returned(DefaultInterpretation)
    ELSE LET parsed == ParseFirstBlock(call)
         IN  IF parsed.raised THEN Returned(DefaultInterpretation) ELSE parsed

analyze_similarity(similar_names, call) ==
    IF call.fault THEN Raised("APIError")
    ELSE LET parsed == ParseFirstBlock(call)
         IN  IF parsed.raised THEN Returned(DefaultSimilarity(similar_names))
             ELSE parsed

-----------------------------------------------------------------------------
(* adapters/states/ca.py                                                   *)
(* The fetch is [api_key, http, data]: whether the key is configured, how  *)
(* the GET ended, and the JSON body when it ended well.  A row of the body *)
(* is a JSON value; a row that is an object maps field names to texts.     *)

ErrorResult(code, notes) == AdapterResult(code, "error", ErrorConfidence, notes)

\* _get(row, *keys, default): the first key whose value is not None and not blank
RECURSIVE CA_get(_, _, _)
CA_get(row, keys, default) ==
    IF keys = <<>> THEN default
    ELSE LET v == Get(row, Head(keys))
         IN  IF v.kind = "str" /\ Strip(v.val) # <<>> THEN Strip(v.val)
             ELSE CA_get(row, Tail(keys), default)

\* the first truthy operand of  a or b or c or d or []
RECURSIVE FirstTruthy(_)
FirstTruthy(js) ==
    IF js = <<>> THEN JList(<<>>)
    ELSE IF Truthy(Head(js)) THEN Head(js) ELSE FirstTruthy(Tail(js))

\* the loop body of _parse_results for one row: the match it appends, if any
CA_row_matches(row) ==
    IF row.kind # "dict" THEN <<>>
    ELSE LET name == CA_get(row.val, <<"EntityName", "entityName", "Name", "name">>, <<>>)
         IN  IF name = <<>> THEN <<>>
             ELSE <<[name |-> name,
                     entity_type |-> CA_get(row.val, <<"EntityType", "entityType",
                                       "EntityTypeName", "entityTypeName">>, <<>>),
                     status |-> CA_get(row.val, <<"Status", "status", "StatusType",
                                       "statusType", "EntityStatus", "entityStatus">>,
                                       <<"unknown">>),
                     file_number |-> CA_get(row.val, <<"EntityNumber", "entityNumber",
                                       "FileNumber", "fileNumber">>, <<>>),
                     registered |-> CA_get(row.val, <<"FormationDate", "formationDate",
                                       "RegistrationDate", "registrationDate",
                                       "InitialFilingDate", "initialFilingDate">>, <<>>)]>>

RECURSIVE CA_rows_matches(_)
CA_rows_matches(rows) ==
    IF rows = <<>> THEN <<>>
    ELSE CA_row_matches(Head(rows)) \o CA_rows_matches(Tail(rows))

\* _parse_results(data).  "for row in rows" raises TypeError on a number; over
\* a string or the keys of an object it finds no object and appends nothing
CA_parse_results(data) ==
    LET rows == CASE data.kind = "list" -> data
                  [] data.kind = "dict" ->
                         FirstTruthy(<<Get(data.val, "results"), Get(data.val, "Results"),
                                       Get(data.val, "entities"), Get(data.val, "Entities")>>)
                  [] OTHER -> JList(<<>>)
    IN  CASE rows.kind = "list" -> Returned(CA_rows_matches(rows.val))
          [] rows.kind = "int"  -> Raised("TypeError")
          [] OTHER              -> Returned(<<>>)

\* CaliforniaAdapter.search: the try covers the request and resp.json() only
CA_search(name, fetch) ==
    IF ~fetch.api_key
    THEN Returned(ErrorResult("CA", <<"CA SOS API key not configured.">>))
    ELSE CASE fetch.http = "timeout" ->
                  Returned(ErrorResult("CA", <<"CA SOS API request timed out.">>))
           [] fetch.http = "status_401" ->
                  Returned(ErrorResult("CA", <<"CA SOS API key is invalid or expired.">>))
           [] fetch.http = "status_429" ->
                  Returned(ErrorResult("CA", <<"CA SOS API rate limit exceeded.">>))
           [] fetch.http = "status_500" ->
                  Returned(ErrorResult("CA", <<"CA SOS API returned HTTP 500.">>))
           [] fetch.http \in {"connect_error", "invalid_json"} ->
                  Returned(ErrorResult("CA", <<"CA SOS API error">>))
           [] fetch.http = "ok" ->
                  LET parsed == CA_parse_results(fetch.data)
                  IN  IF parsed.raised THEN parsed
                      ELSE Returned(CA_classify(parsed.value, name))

-----------------------------------------------------------------------------
(* The browser-driven adapters: de.py, fl.py, nj.py, ny.py, wa.py          *)
(* The site is a page record:                                              *)
(*   hang         the search does not finish within the 90 s budget        *)
(*   goto_ok      page.goto succeeds (it raises otherwise)                 *)
(*   input_found  a selector of the name input is found in time            *)
(*   fill_ok      page.fill succeeds                                       *)
(*   submit_ok    a submit control can be clicked                          *)
(*   phrase       the body text holds one of the adapter's no-result       *)
(*                phrases                                                  *)
(*   table        the results table is in the page                         *)
(*   header       the table's header cells, each the column _col_index     *)
(*                takes it for ("name", "id", "type", "status", "date") or *)
(*                "none"                                                   *)
(*   rows         the table's data rows, each the texts of its td cells    *)
(*   llm          what the interpretation capability answers if asked      *)

RECURSIVE Concat(_)
Concat(ss) == IF ss = <<>> THEN <<>> ELSE Head(ss) \o Concat(Tail(ss))

\* the matches a parser collects over the rows: F gives a row's match, if any
FlatMap(s, F(_)) == Concat([i \in 1..Len(s) |-> F(s[i])])

AvailableResult(code) ==
    AdapterResult(code, "available", BuildConfidence("primary", "clear"),
                  <<"No matching entities found in registry.">>)

\* a missing element reported on the default tier
FailedResult_default_tier(code, notes) == ErrorResult(code, notes)

FailedResult(code, notes) ==
    [ErrorResult(code, notes) EXCEPT !.extraction_method = "failed"]

\* an llm tier that scores its result as the primary tier
LlmResult_primary_confidence(code, out) ==
    IF out.raised THEN out
    ELSE IF out.value.kind # "dict" THEN Raised("AttributeError")
    ELSE Returned(
             [AdapterResult(code, GetOr(out.value.val, "availability", "unknown"),
                  BuildConfidence("primary", GetOr(out.value.val, "clarity", "ambiguous")),
                  GetOr(out.value.val, "notes", <<"Result interpreted via LLM fallback.">>))
              EXCEPT !.similar_names = GetOr(out.value.val, "similar_names", <<>>),
                     !.extraction_method = "llm"])

\* the AdapterResult every _llm_fallback builds from the interpretation;
\* interpretation.get raises AttributeError on a value that is no object
LlmResult(code, out) ==
    IF out.raised THEN out
    ELSE IF out.value.kind # "dict" THEN Raised("AttributeError")
    ELSE LET i == out.value.val
         IN  Returned(
                 [AdapterResult(code, GetOr(i, "availability", "unknown"),
                      BuildConfidence("llm", GetOr(i, "clarity", "ambiguous")),
                      GetOr(i, "notes", <<"Result interpreted via LLM fallback.">>))
                  EXCEPT !.similar_names = GetOr(i, "similar_names", <<>>),
                         !.extraction_method = "llm"])

\* asyncio.wait_for(..., timeout=90) inside try/except: a search over budget
\* and a search that raised both end as an error result
Timeboxed(code, page, out) ==
    IF page.hang
    THEN Returned(ErrorResult(code, <<"search timed out after 90 seconds.">>))
    ELSE IF out.raised THEN Returned(ErrorResult(code, <<"Unexpected error", out.exc>>))
    ELSE out

\* _cell(cells, index), index counted from 0
Cell(cells, index) ==
    IF index < 0 \/ index >= Len(cells) THEN <<>> ELSE Strip(cells[index + 1])

\* col.get(kind, default) on _col_index(headers): the first header of the kind
ColIndex(header, kind, default) ==
    IF \E i \in 1..Len(header) : header[i] = kind
    THEN (CHOOSE i \in 1..Len(header) :
              /\ header[i] = kind
              /\ \A k \in 1..(i - 1) : header[k] # kind) - 1
    ELSE default

OrUnknown(text) == IF text = <<>> THEN <<"unknown">> ELSE text

\* Delaware -------------------------------------------------------------

DE_row(cells) ==
    IF Len(cells) < 2 THEN <<>>
    ELSE LET file_number == Strip(cells[1])
             entity_name == Strip(cells[2])
         IN  IF \/ Upper(entity_name) = <<"ENTITY", Blank, "NAME">>
                \/ Upper(file_number) = <<"FILE", Blank, "NUMBER">>
                \/ entity_name = <<>>
             THEN <<>>
             ELSE <<EntityMatch(entity_name, <<>>, <<"unknown">>, file_number)>>

DE_parse_table_rows(page) == FlatMap(page.rows, DE_row)

DE_llm_fallback(page) == LlmResult("DE", interpret_state_page_sync(page.llm))

DE_parse_results(page, name) ==
    IF ~page.table \/ page.phrase THEN Returned(AvailableResult("DE"))
    ELSE LET matches == DE_parse_table_rows(page)
         IN  IF matches = <<>> THEN DE_llm_fallback(page)
             ELSE Returned(DE_classify(matches, name))

DE_fill_and_extract(page, name) ==
    IF ~page.input_found
    THEN Returned(FailedResult("DE", <<"Name input field not found">>))
    ELSE IF ~page.fill_ok \/ ~page.submit_ok THEN Raised("PlaywrightError")
    ELSE DE_parse_results(page, name)

DE_search_sync(name, page) ==
    IF ~page.goto_ok THEN Raised("PlaywrightError")
    ELSE DE_fill_and_extract(page, name)

DE_search(name, page) == Timeboxed("DE", page, DE_search_sync(name, page))

\* Florida --------------------------------------------------------------

FL_row(cells) ==
    IF Len(cells) < 2 THEN <<>>
    ELSE LET entity_name == Strip(cells[1])
         IN  IF entity_name = <<>> THEN <<>>
             ELSE <<EntityMatch(entity_name, <<>>,
                        IF Len(cells) > 2 THEN Strip(cells[3]) ELSE <<"unknown">>,
                        Strip(cells[2]))>>

FL_parse_table(page) == IF page.table THEN FlatMap(page.rows, FL_row) ELSE <<>>

FL_llm_fallback(page) == LlmResult("FL", interpret_state_page(page.llm))

FL_parse_results(page, name) ==
    IF page.phrase THEN Returned(AvailableResult("FL"))
    ELSE LET matches == FL_parse_table(page)
         IN  IF matches = <<>>
             THEN IF page.table THEN Returned(AvailableResult("FL"))
                  ELSE FL_llm_fallback(page)
             ELSE Returned(FL_classify(matches, name))

FL_fill_and_extract(page, name) ==
    IF ~page.input_found THEN Returned(FailedResult("FL", <<"FL search form not found">>))
    ELSE IF ~page.fill_ok THEN Raised("PlaywrightError")
    ELSE IF ~page.submit_ok
    THEN Returned(FailedResult("FL", <<"FL search submit button not found.">>))
    ELSE FL_parse_results(page, name)

FL_run(name, page) ==
    IF ~page.goto_ok THEN Raised("PlaywrightError")
    ELSE FL_fill_and_extract(page, name)

FL_search(name, page) == Timeboxed("FL", page, FL_run(name, page))

\* New Jersey -----------------------------------------------------------

NJ_row(header, cells) ==
    IF Len(cells) = 0 THEN <<>>
    ELSE LET entity_name == Cell(cells, ColIndex(header, "name", 0))
         IN  IF entity_name = <<>> THEN <<>>
             ELSE <<[name |-> entity_name,
                     entity_type |-> Cell(cells, ColIndex(header, "type", -1)),
                     status |-> OrUnknown(Cell(cells, ColIndex(header, "status", -1))),
                     file_number |-> Cell(cells, ColIndex(header, "id", -1)),
                     registered |-> Cell(cells, ColIndex(header, "date", -1))]>>

\* a table of the header row alone (len(rows) < 2) is passed over
NJ_parse_table(page) ==
    IF ~page.table \/ page.rows = <<>> THEN <<>>
    ELSE FlatMap(page.rows, LAMBDA cells : NJ_row(page.header, cells))

NJ_llm_fallback(page) == LlmResult("NJ", interpret_state_page(page.llm))

\* a reading of the results page that turns to the capability without
\* looking for the negative phrase
NJ_parse_results_phrase_unread(page, name) ==
    LET matches == NJ_parse_table(page)
    IN  IF matches = <<>> THEN NJ_llm_fallback(page)
        ELSE Returned(NJ_classify(matches, name))

NJ_parse_results(page, name) ==
    IF page.phrase THEN Returned(AvailableResult("NJ"))
    ELSE LET matches == NJ_parse_table(page)
         IN  IF matches = <<>> THEN NJ_llm_fallback(page)
             ELSE Returned(NJ_classify(matches, name))

NJ_fill_and_extract(page, name) ==
    IF ~page.input_found THEN Returned(FailedResult("NJ", <<"NJ search form not found">>))
    ELSE IF ~page.fill_ok THEN Raised("PlaywrightError")
    ELSE IF ~page.submit_ok
    THEN Returned(FailedResult("NJ", <<"NJ search submit button not found.">>))
    ELSE NJ_parse_results(page, name)

NJ_run(name, page) ==
    IF ~page.goto_ok THEN Raised("PlaywrightError")
    ELSE NJ_fill_and_extract(page, name)

NJ_search(name, page) == Timeboxed("NJ", page, NJ_run(name, page))

\* New York -------------------------------------------------------------

NY_row(cells) ==
    IF Len(cells) < 2 THEN <<>>
    ELSE LET entity_name == Strip(cells[1])
             status == IF Len(cells) > 5 THEN Strip(cells[6]) ELSE <<"unknown">>
         IN  IF \/ entity_name = <<>>
                \/ Upper(entity_name) \in {<<"ENTITY", Blank, "NAME">>, <<"NAME">>}
             THEN <<>>
             ELSE <<EntityMatch(entity_name,
                        IF Len(cells) > 4 THEN Strip(cells[5]) ELSE <<>>,
                        OrUnknown(Lower(status)), Strip(cells[2]))>>

NY_parse_table(page) == IF page.table THEN FlatMap(page.rows, NY_row) ELSE <<>>

NY_llm_fallback(page) == LlmResult("NY", interpret_state_page_sync(page.llm))

NY_parse_results(page, name) ==
    IF page.phrase THEN Returned(AvailableResult("NY"))
    ELSE LET matches == NY_parse_table(page)
         IN  IF matches = <<>> THEN NY_llm_fallback(page)
             ELSE Returned(NY_classify(matches, name))

NY_fill_and_extract(page, name) ==
    IF ~page.input_found
    THEN Returned(FailedResult("NY", <<"NY DOS site did not render search form in time.">>))
    ELSE IF ~page.fill_ok
    THEN Returned(FailedResult("NY", <<"Could not locate search input on NY DOS site.">>))
    ELSE IF ~page.submit_ok
    THEN Returned(FailedResult("NY", <<"Could not submit search form on NY DOS site.">>))
    ELSE NY_parse_results(page, name)

NY_search_sync(name, page) ==
    IF ~page.goto_ok THEN Raised("PlaywrightError")
    ELSE NY_fill_and_extract(page, name)

NY_search(name, page) == Timeboxed("NY", page, NY_search_sync(name, page))

\* Washington -----------------------------------------------------------

WA_row(header, cells) ==
    IF Len(cells) = 0 THEN <<>>
    ELSE LET entity_name == Cell(cells, ColIndex(header, "name", 0))
         IN  IF entity_name = <<>> THEN <<>>
             ELSE <<[name |-> entity_name,
                     entity_type |-> Cell(cells, ColIndex(header, "type", -1)),
                     status |-> OrUnknown(Cell(cells, ColIndex(header, "status", -1))),
                     file_number |-> Cell(cells, ColIndex(header, "id", -1)),
                     registered |-> <<>>]>>

WA_parse_table(page) ==
    IF ~page.table THEN <<>>
    ELSE FlatMap(page.rows, LAMBDA cells : WA_row(page.header, cells))

WA_llm_fallback(page) == LlmResult("WA", interpret_state_page(page.llm))

WA_parse_results(page, name) ==
    IF page.phrase THEN Returned(AvailableResult("WA"))
    ELSE LET matches == WA_parse_table(page)
         IN  IF matches = <<>> THEN WA_llm_fallback(page)
             ELSE Returned(WA_classify(matches, name))

WA_fill_and_extract(page, name) ==
    IF ~page.input_found THEN Returned(FailedResult("WA", <<"WA search form not found">>))
    ELSE IF ~page.fill_ok THEN Raised("PlaywrightError")
    ELSE IF ~page.submit_ok
    THEN Returned(FailedResult("WA", <<"WA search submit button not found.">>))
    ELSE WA_parse_results(page, name)

WA_run(name, page) ==
    IF ~page.goto_ok THEN Raised("PlaywrightError")
    ELSE WA_fill_and_extract(page, name)

WA_search(name, page) == Timeboxed("WA", page, WA_run(name, page))

\* adapter.search(name, entity_type) of the adapter registered under code;
\* site is the fetch (CA) or the page (the others)
Search(code, name, site) ==
    CASE code = "CA" -> CA_search(name, site)
      [] code = "DE" -> DE_search(name, site)
      [] code = "FL" -> FL_search(name, site)
      [] code = "NJ" -> NJ_search(name, site)
      [] code = "NY" -> NY_search(name, site)
      [] code = "WA" -> WA_search(name, site)

-----------------------------------------------------------------------------
(* Inputs of the classifiers                                               *)

MaxMatches == 2

SearchNames ==
    {<<"Acme">>, <<Blank, "acme", Blank>>, <<"Acme", Blank, "Bank", Blank, "Inc">>}

MatchNames ==
    {<<"ACME">>, <<"Acme", Blank>>, <<"Acme", Blank, "Group">>,
     <<"ACME", Blank, "BANK", Blank, "INC">>}

MatchStatuses == {<<"Active">>, <<"Dissolved">>, <<"unknown">>}

Matches ==
    {EntityMatch(n, <<>>, st, <<"F1">>) : n \in MatchNames, st \in MatchStatuses}

SeqsUpTo(S, n) == UNION {[1..k -> S] : k \in 0..n}

MatchLists == SeqsUpTo(Matches, MaxMatches)

AdapterCodes == {"CA", "DE", "FL", "NJ", "NY", "WA"}

InitOrchIdle ==
    /\ jobs = <<>>
    /\ state_results = <<>>
    /\ uspto_results = <<>>
    /\ runner = <<>>
    /\ tasks = <<>>
    /\ active_jobs = {}
    /\ done_events = {}

InitClassify ==
    /\ InitOrchIdle
    /\ probe \in {[fn |-> "classify", code |-> c, matches |-> ms,
                   search_name |-> n, called |-> FALSE]
                  : c \in AdapterCodes, ms \in MatchLists, n \in SearchNames}

\* one call of the adapter's _classify on the drawn input
CallClassify ==
    /\ probe.fn = "classify" /\ ~probe.called
    /\ probe' = [fn |-> "classify", code |-> probe.code,
                 matches |-> probe.matches, search_name |-> probe.search_name,
                 called |-> TRUE,
                 result |-> Classify(probe.code, probe.matches, probe.search_name)]
    /\ UNCHANGED orch_vars

NextClassify == CallClassify

SpecClassify == InitClassify /\ [][NextClassify]_vars

-----------------------------------------------------------------------------
(* Inputs of the wrappers: what the capability can answer                  *)

Availabilities == {"available", "taken", "similar", "unknown", "error"}

SimilarNameLists == {<<>>, <<<<"Acme", Blank, "Group">>>>,
                     <<<<"ACME">>, <<"Acme", Blank, "Group">>>>}

\* objects with the fields the page-interpretation prompt asks for
InterpretationReplies ==
    {JDict([availability |-> a, similar_names |-> sn, clarity |-> c,
            notes |-> <<"one sentence from the model">>])
     : a \in {"available", "taken", "similar", "unknown"},
       sn \in {<<>>, <<<<"Acme", Blank, "Group">>>>},
       c \in {"clear", "ambiguous"}}

\* objects with the fields the similarity prompt asks for
SimilarityReplies ==
    {JDict([risk_level |-> JText(<<r>>),
            conflicting_names |-> <<<<"Acme", Blank, "Group">>>>,
            explanation |-> "explanation from the model",
            recommendation |-> "recommendation from the model"])
     : r \in {"low", "medium", "high"}}

\* valid JSON that is no object, and objects without the expected fields
OffShapeReplies ==
    {JList(<<>>), JText(<<"sorry">>), JInt(42), JNull,
     JDict([error |-> "overloaded"]),
     JDict([risk_level |-> JNull, availability |-> "maybe"])}

TextBlock(v) == [json |-> TRUE, value |-> v]
NonJsonBlock == [json |-> FALSE, value |-> JNull]

LlmCalls ==
    {[fault |-> TRUE, content |-> <<>>],
     [fault |-> FALSE, content |-> <<>>],
     [fault |-> FALSE, content |-> <<NonJsonBlock>>]}
    \cup {[fault |-> FALSE, content |-> <<TextBlock(v)>>]
          : v \in InterpretationReplies \cup SimilarityReplies \cup OffShapeReplies}

Wrappers == {"interpret_state_page", "interpret_state_page_sync",
             "analyze_similarity"}

InitLlm ==
    /\ InitOrchIdle
    /\ probe \in {[fn |-> w, call |-> c, similar_names |-> sn, called |-> FALSE]
                  : w \in Wrappers, c \in LlmCalls,
                    sn \in SimilarNameLists \ {<<>>}}

\* one call of the drawn wrapper on the drawn answer of the capability
CallWrapper ==
    /\ probe.fn \in Wrappers /\ ~probe.called
    /\ probe' = [fn |-> probe.fn, call |-> probe.call,
                 similar_names |-> probe.similar_names, called |-> TRUE,
                 out |-> CASE probe.fn = "interpret_state_page" ->
                                  interpret_state_page(probe.call)
                           [] probe.fn = "interpret_state_page_sync" ->
                                  interpret_state_page_sync(probe.call)
                           [] probe.fn = "analyze_similarity" ->
                                  analyze_similarity(probe.similar_names, probe.call)]
    /\ UNCHANGED orch_vars

NextLlm == CallWrapper

SpecLlm == InitLlm /\ [][NextLlm]_vars

-----------------------------------------------------------------------------
(* Claims about the wrappers (SpecLlm)                                     *)

InterpretationFields == {"availability", "similar_names", "clarity", "notes"}

SimilarityFields ==
    {"risk_level", "conflicting_names", "explanation", "recommendation"}

ExpectedFields(w) ==
    IF w = "analyze_similarity" THEN SimilarityFields ELSE InterpretationFields

\* the model's output is malformed: no content block, text that is not JSON,
\* or JSON that is not an object with the wrapper's expected fields
Malformed(w, call) ==
    /\ ~call.fault
    /\ \/ call.content = <<>>
       \/ ~call.content[1].json
       \/ call.content[1].value.kind # "dict"
       \/ /\ call.content[1].value.kind = "dict"
          /\ ~(ExpectedFields(w) \subseteq DOMAIN call.content[1].value.val)

DegradedDefault(w, similar_names) ==
    IF w = "analyze_similarity" THEN DefaultSimilarity(similar_names)
    ELSE DefaultInterpretation

\* C8: analyze_similarity does not raise: on a failed call of the capability
\* and on malformed output alike it returns risk_level unknown with the
\* similar names it was given as conflicting_names.
C8_AsStated ==
    (/\ probe.fn = "analyze_similarity" /\ probe.called
     /\ (probe.call.fault \/ Malformed(probe.fn, probe.call)))
    => /\ ~probe.out.raised
       /\ probe.out.value.kind = "dict"
       /\ probe.out.value = DefaultSimilarity(probe.similar_names)

\* C9: on every malformed output each wrapper returns its fixed degraded
\* default and does not raise.
C9_AsStated ==
    (/\ probe.fn \in Wrappers /\ probe.called
     /\ Malformed(probe.fn, probe.call))
    => /\ ~probe.out.raised
       /\ probe.out.value = DegradedDefault(probe.fn, probe.similar_names)

-----------------------------------------------------------------------------
(* Inputs of the adapters: what a registry can answer                      *)

\* a registry entry laid out as a table row of the adapter's results page
RowOf(code, name, status) ==
    CASE code = "DE" -> <<<<"F1">>, name>>
      [] code = "FL" -> <<name, <<"F1">>, status>>
      [] code = "NJ" -> <<name, <<"F1">>, <<"LLC">>, status, <<"2020">>>>
      [] code = "NY" -> <<name, <<"F1">>, <<"Kings">>, <<"NY">>, <<"LLC">>, status>>
      [] code = "WA" -> <<name, <<"F1">>, <<"LLC">>, status>>

HeaderOf(code) ==
    CASE code = "NJ" -> <<"name", "id", "type", "status", "date">>
      [] code = "WA" -> <<"name", "id", "type", "status">>
      [] OTHER -> <<>>

\* registries: the entries a search brings up, as (name, status) pairs
Registries ==
    {<<>>,
     <<<<<<"Acme", Blank, "Group">>, <<"Active">>>>>>,
     <<<<<<"ACME">>, <<"Dissolved">>>>, <<<<"Acme", Blank, "Group">>, <<"Active">>>>>>,
     <<<<<<Blank>>, <<"Active">>>>>>}

RowsOf(code, registry) ==
    [i \in 1..Len(registry) |-> RowOf(code, registry[i][1], registry[i][2])]

\* what the capability answers when a page escalates to it
PageLlmCalls ==
    {[fault |-> TRUE, content |-> <<>>],
     [fault |-> FALSE, content |-> <<NonJsonBlock>>],
     [fault |-> FALSE, content |-> <<TextBlock(JList(<<>>))>>],
     [fault |-> FALSE, content |-> <<TextBlock(
         JDict([availability |-> "similar", similar_names |-> <<>>,
                clarity |-> "inferred", notes |-> <<"one sentence from the model">>]))>>],
     [fault |-> FALSE, content |-> <<TextBlock(
         JDict([availability |-> "similar",
                similar_names |-> <<<<"Acme", Blank, "Group">>>>,
                clarity |-> "clear", notes |-> <<"one sentence from the model">>]))>>],
     [fault |-> FALSE, content |-> <<TextBlock(
         JDict([availability |-> "error", similar_names |-> <<>>,
                clarity |-> "ambiguous", notes |-> <<"one sentence from the model">>]))>>],
     [fault |-> FALSE, content |-> <<TextBlock(
         JDict([availability |-> "maybe", risk_level |-> JNull]))>>]}

GoodPage(code, phrase, table, registry, llm) ==
    [hang |-> FALSE, goto_ok |-> TRUE, input_found |-> TRUE, fill_ok |-> TRUE,
     submit_ok |-> TRUE, phrase |-> phrase, table |-> table,
     header |-> HeaderOf(code), rows |-> IF table THEN RowsOf(code, registry) ELSE <<>>,
     llm |-> llm]

\* pages whose search cannot be carried through
BrokenPages(code) ==
    LET p == GoodPage(code, FALSE, TRUE, <<>>, [fault |-> TRUE, content |-> <<>>])
        q == GoodPage(code, FALSE, TRUE,
                      <<<<<<"ACME">>, <<"Dissolved">>>>,
                        <<<<"Acme", Blank, "Group">>, <<"Active">>>>>>,
                      [fault |-> TRUE, content |-> <<>>])
    IN  {[p EXCEPT !.hang = TRUE], [p EXCEPT !.goto_ok = FALSE],
         [p EXCEPT !.input_found = FALSE], [p EXCEPT !.fill_ok = FALSE],
         [p EXCEPT !.submit_ok = FALSE],
         [q EXCEPT !.input_found = FALSE], [q EXCEPT !.fill_ok = FALSE],
         [q EXCEPT !.submit_ok = FALSE]}

Pages(code) ==
    BrokenPages(code)
    \cup {GoodPage(code, ph, tb, rg, llm)
          : ph \in BOOLEAN, tb \in BOOLEAN, rg \in Registries, llm \in PageLlmCalls}

CaRow(name, status) ==
    JDict([EntityName |-> JText(name), Status |-> JText(status),
           EntityNumber |-> JText(<<"F1">>)])

CaRows(registry) ==
    [i \in 1..Len(registry) |-> CaRow(registry[i][1], registry[i][2])]

\* bodies of an HTTP 200 answer of the CA API
CaBodies ==
    {JList(CaRows(rg)) : rg \in Registries}
    \cup {JDict([results |-> JList(CaRows(rg))]) : rg \in Registries}
    \cup {JDict([Entities |-> JList(CaRows(rg)), results |-> JNull]) : rg \in Registries}
    \cup {JList(<<JInt(3), JDict([entityName |-> JText(<<"ACME">>)]),
                  JDict([Status |-> JText(<<"Active">>)])>>),
          JDict([results |-> JInt(7)]),
          JDict([results |-> JInt(0)]),
          JDict([results |-> JText(<<"none">>)]),
          JDict([message |-> JText(<<"quota">>)]),
          JText(<<"ok">>), JNull}

CaFetches ==
    {[api_key |-> FALSE, http |-> "ok", data |-> JList(<<>>)]}
    \cup {[api_key |-> TRUE, http |-> h, data |-> JNull]
          : h \in {"timeout", "status_401", "status_429", "status_500",
                   "connect_error", "invalid_json"}}
    \cup {[api_key |-> TRUE, http |-> "ok", data |-> d] : d \in CaBodies}

Sites(code) == IF code = "CA" THEN CaFetches ELSE Pages(code)

InitAdapter ==
    /\ InitOrchIdle
    /\ probe \in {[fn |-> "search", code |-> c, search_name |-> n, site |-> st,
                   called |-> FALSE]
                  : c \in AdapterCodes, n \in SearchNames \ {<<Blank, "acme", Blank>>},
                    st \in UNION {Sites(cc) : cc \in AdapterCodes}}
    /\ probe.site \in Sites(probe.code)

\* one call of adapter.search on the drawn site
CallSearch ==
    /\ probe.fn = "search" /\ ~probe.called
    /\ probe' = [fn |-> "search", code |-> probe.code,
                 search_name |-> probe.search_name, site |-> probe.site,
                 called |-> TRUE,
                 out |-> Search(probe.code, probe.search_name, probe.site)]
    /\ UNCHANGED orch_vars

NextAdapter == CallSearch

SpecAdapter == InitAdapter /\ [][NextAdapter]_vars

-----------------------------------------------------------------------------
(* Claims about the adapters' search (SpecAdapter)                         *)

\* the body has the shape the CA parser expects: a list, or an object with a
\* list under one of its four wrapper keys
CaExpectedShape(data) ==
    \/ data.kind = "list"
    \/ /\ data.kind = "dict"
       /\ \E k \in {"results", "Results", "entities", "Entities"} \cap DOMAIN data.val :
              data.val[k].kind = "list"

\* the page is one on which the adapter turns to the interpretation capability
LlmAsked(code, page) ==
    /\ ~page.hang /\ page.goto_ok /\ page.input_found /\ page.fill_ok /\ page.submit_ok
    /\ ~page.phrase
    /\ page.rows = <<>>
    /\ CASE code = "DE" -> page.table
         [] code = "FL" -> ~page.table
         [] OTHER -> TRUE

\* a failure mode of the fetch: missing credential, network error, timeout,
\* unexpected response shape, missing page element, failed interpretation
FailureMode(code, site) ==
    IF code = "CA"
    THEN \/ ~site.api_key
         \/ site.http # "ok"
         \/ ~CaExpectedShape(site.data)
    ELSE \/ site.hang \/ ~site.goto_ok \/ ~site.input_found
         \/ ~site.fill_ok \/ ~site.submit_ok
         \/ (LlmAsked(code, site) /\ site.llm.fault)

\* C2: no search raises, and on every failure mode of its fetch the search
\* returns availability error, confidence 0.1 and a non-empty note.
C2_AsStated ==
    (probe.fn = "search" /\ probe.called) =>
        /\ ~probe.out.raised
        /\ FailureMode(probe.code, probe.site) =>
               /\ probe.out.value.availability = "error"
               /\ probe.out.value.confidence = ErrorConfidence
               /\ probe.out.value.notes # <<>>

-----------------------------------------------------------------------------
(* Claims about match classification (SpecClassify)                        *)

\* the match is exact: its name equals the searched name once both are
\* trimmed and uppercased
ExactFor(m, search_name) == Upper(Strip(m.name)) = Upper(Strip(search_name))

HasExact(ms, search_name) == \E i \in 1..Len(ms) : ExactFor(ms[i], search_name)

NonExactNames(ms, search_name) ==
    NamesOf(SelectSeq(ms, LAMBDA m : ~ExactFor(m, search_name)))

InactiveVocabulary(code) ==
    CASE code = "CA" -> CA_INACTIVE
      [] code = "FL" -> FL_INACTIVE_STATUSES
      [] code = "WA" -> WA_INACTIVE_STATUSES
      [] OTHER -> CA_INACTIVE \cap FL_INACTIVE_STATUSES \cap WA_INACTIVE_STATUSES

AllExactInactive(code, ms, search_name) ==
    \A i \in 1..Len(ms) :
        ExactFor(ms[i], search_name) =>
            Lower(ms[i].status) \in InactiveVocabulary(code)

HasAdvisory(result) ==
    \E i \in 1..Len(result.notes) : result.notes[i] = AdvisoryNote

\* C11: in the classifier of every adapter, when there is an exact match the
\* result is taken, and its notes carry the inactive advisory exactly when
\* every exact match has an inactive status.
C11_AsStated ==
    (/\ probe.fn = "classify" /\ probe.called
     /\ HasExact(probe.matches, probe.search_name)) =>
        /\ probe.result.availability = "taken"
        /\ HasAdvisory(probe.result) <=>
               AllExactInactive(probe.code, probe.matches, probe.search_name)

-----------------------------------------------------------------------------
(* Inputs of the confidence formula (SpecConfidence)                       *)

Tiers == {"primary", "fallback", "llm", "failed"}

Clarities == {"clear", "inferred", "ambiguous"}

\* the lookups' keys and strings that are no key of them
TierInputs == Tiers \cup {"", "PRIMARY", "cached", "unknown"}

ClarityInputs == Clarities \cup {"", "CLEAR", "certain", "unknown"}

InitConfidence ==
    /\ InitOrchIdle
    /\ probe \in {[fn |-> "_build_confidence", extraction_method |-> t,
                   result_clarity |-> c, called |-> FALSE]
                  : t \in TierInputs, c \in ClarityInputs}

\* one call of _build_confidence on the drawn pair
CallBuildConfidence ==
    /\ probe.fn = "_build_confidence" /\ ~probe.called
    /\ probe' = [fn |-> "_build_confidence",
                 extraction_method |-> probe.extraction_method,
                 result_clarity |-> probe.result_clarity,
                 called |-> TRUE,
                 out |-> BuildConfidence(probe.extraction_method,
                                         probe.result_clarity)]
    /\ UNCHANGED orch_vars

NextConfidence == CallBuildConfidence

SpecConfidence == InitConfidence /\ [][NextConfidence]_vars

\* the weights the confidence model states, in tenths; 0.4 for anything else
StatedExtractionWeight(t) ==
    CASE t = "primary" -> 10 [] t = "fallback" -> 7 [] t = "llm" -> 4
      [] t = "failed" -> 1 [] OTHER -> 4

StatedClarityWeight(c) ==
    CASE c = "clear" -> 10 [] c = "inferred" -> 7 [] c = "ambiguous" -> 4
      [] OTHER -> 4

\* extraction_weight*0.40 + 0.85*0.25 + clarity_weight*0.25 + 0.10, counted in
\* ten-thousandths
StatedSum(t, c) ==
    StatedExtractionWeight(t) * 400 + 2125 + StatedClarityWeight(c) * 250 + 1000

\* C12: for every tier and clarity, the 4x3 stated ones and any other string,
\* _build_confidence returns the stated sum rounded to two decimals (the
\* hundredth nearest to it), and the value lies in [0,1].
C12_ConfidenceFormula ==
    (probe.fn = "_build_confidence" /\ probe.called) =>
        LET exact == StatedSum(probe.extraction_method, probe.result_clarity)
        IN  /\ probe.out * 100 - exact < 50
            /\ exact - probe.out * 100 < 50
            /\ 0 <= probe.out /\ probe.out <= 100

\* the inferred clarity under a tier that is no key of the lookup: 0.6475
\* rounds up to 0.65
C12_Witness ==
    /\ probe.fn = "_build_confidence" /\ probe.called
    /\ probe.extraction_method = "cached"
    /\ probe.result_clarity = "inferred"
    /\ probe.out = 65

-----------------------------------------------------------------------------
(* Claims about the results of the adapters' search (SpecAdapter)          *)

\* a reply of the capability that no page and no adapter produces
TracerReply ==
    [fault |-> FALSE, content |-> <<TextBlock(
        JDict([availability |-> "asked", similar_names |-> <<>>,
               clarity |-> "clear", notes |-> <<"asked">>]))>>]

\* the search turns to interpret_state_page / interpret_state_page_sync on
\* this site: control reaches the adapter's _llm_fallback, which is where a
\* well-formed reply is copied into the result
CapabilityCalled(code, name, site) ==
    /\ code # "CA"
    /\ LET out == Search(code, name, [site EXCEPT !.llm = TracerReply])
       IN  /\ ~out.raised
           /\ out.value.extraction_method = "llm"
           /\ out.value.availability = "asked"

\* the search gets as far as reading the results page
ResultsPageRead(page) ==
    /\ ~page.hang /\ page.goto_ok /\ page.input_found
    /\ page.fill_ok /\ page.submit_ok

\* C17 as stated: in every browser adapter, a results page that shows a
\* negative phrase or has no results table is answered available with the
\* confidence of primary/clear, and the capability is not called.
C17_AsStated ==
    (/\ probe.fn = "search" /\ probe.called /\ probe.code # "CA"
     /\ ResultsPageRead(probe.site)
     /\ (probe.site.phrase \/ ~probe.site.table)) =>
        /\ ~probe.out.raised
        /\ probe.out.value.availability = "available"
        /\ probe.out.value.extraction_method = "primary"
        /\ probe.out.value.confidence = BuildConfidence("primary", "clear")
        /\ ~CapabilityCalled(probe.code, probe.search_name, probe.site)

\* the match rows the adapter parses out of the results page
ParsedRows(code, page) ==
    CASE code = "DE" -> IF page.table THEN DE_parse_table_rows(page) ELSE <<>>
      [] code = "FL" -> FL_parse_table(page)
      [] code = "NJ" -> NJ_parse_table(page)
      [] code = "NY" -> NY_parse_table(page)
      [] code = "WA" -> WA_parse_table(page)

\* what the capability hands back to the adapter's _llm_fallback
Interpretation(code, page) ==
    IF code \in {"DE", "NY"} THEN interpret_state_page_sync(page.llm)
    ELSE interpret_state_page(page.llm)

\* C18: the search turns to the capability only on a results page with no
\* parsed match row and no negative phrase; a result of the llm tier comes
\* from such a call and carries the availability, similar_names and notes the
\* capability returned.
C18_LlmTier ==
    (probe.fn = "search" /\ probe.called /\ probe.code # "CA") =>
        /\ CapabilityCalled(probe.code, probe.search_name, probe.site) =>
               /\ ResultsPageRead(probe.site)
               /\ ~probe.site.phrase
               /\ ParsedRows(probe.code, probe.site) = <<>>
        /\ (~probe.out.raised /\ probe.out.value.extraction_method = "llm") =>
               LET reply == Interpretation(probe.code, probe.site)
                   r == probe.out.value
               IN  /\ CapabilityCalled(probe.code, probe.search_name, probe.site)
                   /\ ~reply.raised /\ reply.value.kind = "dict"
                   /\ "availability" \in DOMAIN reply.value.val =>
                          r.availability = reply.value.val.availability
                   /\ "similar_names" \in DOMAIN reply.value.val =>
                          r.similar_names = reply.value.val.similar_names
                   /\ "notes" \in DOMAIN reply.value.val =>
                          r.notes = reply.value.val.notes

\* a result of the llm tier that names what the capability named
C18_Witness ==
    /\ probe.fn = "search" /\ probe.called /\ ~probe.out.raised
    /\ probe.out.value.extraction_method = "llm"
    /\ probe.out.value.similar_names # <<>>
    /\ probe.out.value.similar_names =
           Interpretation(probe.code, probe.site).value.val.similar_names

\* the adapters whose _fill_and_extract looks for a submit control and gives
\* up without one (Delaware clicks its button without looking for it)
SubmitRequired == {"FL", "NJ", "NY", "WA"}

\* the loaded page lacks an element the adapter looks for: the search input,
\* or the submit control once the name is filled in
ElementMissing(code, page) ==
    /\ ~page.hang /\ page.goto_ok
    /\ \/ ~page.input_found
       \/ code = "NY" /\ ~page.fill_ok
       \/ code \in SubmitRequired /\ page.fill_ok /\ ~page.submit_ok

IsFormulaOutput(confidence, tier) ==
    \E c \in ClarityInputs :
        /\ confidence * 100 - StatedSum(tier, c) < 50
        /\ StatedSum(tier, c) - confidence * 100 < 50

\* C13 as stated: on every path, error paths included, the confidence of the
\* result a search returns is the formula's output for the tier recorded on
\* the result and some clarity.
C13_AsStated ==
    (probe.fn = "search" /\ probe.called /\ ~probe.out.raised) =>
        IsFormulaOutput(probe.out.value.confidence,
                        probe.out.value.extraction_method)

\* C13 amended: a result the adapter builds on one of its own error paths
\* (availability error, tier not llm) carries the fixed confidence 0.1
\* whatever tier it records; every other result carries the formula's output
\* for its recorded tier and some clarity.
C13_Confidence ==
    (probe.fn = "search" /\ probe.called /\ ~probe.out.raised) =>
        LET r == probe.out.value
        IN  IF r.availability = "error" /\ r.extraction_method # "llm"
            THEN r.confidence = 10 /\ r.extraction_method \in {"primary", "failed"}
            ELSE IsFormulaOutput(r.confidence, r.extraction_method)

\* a result of the llm tier with the clarity the capability reported
C13_Witness ==
    /\ probe.fn = "search" /\ probe.called /\ ~probe.out.raised
    /\ probe.out.value.extraction_method = "llm"
    /\ probe.out.value.availability = "similar"
    /\ probe.out.value.confidence = 65

-----------------------------------------------------------------------------
(* The executor of the Delaware adapter (the New York adapter has one of    *)
(* its own, of the same shape) and the specification SpecPool: searches of  *)
(* any jobs call DelawareAdapter.search, which hands _search_sync to the    *)
(* ThreadPoolExecutor and awaits it under asyncio.wait_for.  Each search    *)
(* is [hang, coro, thread, waited]: hang says that its own _search_sync     *)
(* runs past the budget; coro is where the awaiting coroutine stands        *)
(* ("new", "waiting", "returned", "timeout"); thread is where the work      *)
(* item stands ("none", "queued", "running", "finished", "cancelled");      *)
(* waited counts the time since wait_for was entered.                       *)

\* ThreadPoolExecutor(max_workers=3)
MaxWorkers == 3

\* the searches that call search() while the others are under way
NumSearches == 4

\* the budget of wait_for, in ticks of the clock
Budget == 2

PoolSearches == 1..NumSearches

Running(s) == {i \in PoolSearches : s[i].thread = "running"}

InitPool ==
    /\ InitOrchIdle
    /\ probe \in {[fn |-> "pool",
                   s |-> [i \in PoolSearches |->
                             [hang |-> h[i], coro |-> "new", thread |-> "none",
                              waited |-> 0]]]
                  : h \in [PoolSearches -> BOOLEAN]}

\* search(): run_in_executor queues the work item, wait_for starts its timer
PoolSubmit(i) ==
    /\ probe.fn = "pool" /\ probe.s[i].coro = "new"
    /\ probe' = [probe EXCEPT !.s[i].coro = "waiting", !.s[i].thread = "queued"]
    /\ UNCHANGED orch_vars

\* a free worker takes a queued work item
PoolStart(i) ==
    /\ probe.fn = "pool" /\ probe.s[i].thread = "queued"
    /\ Cardinality(Running(probe.s)) < MaxWorkers
    /\ probe' = [probe EXCEPT !.s[i].thread = "running"]
    /\ UNCHANGED orch_vars

\* _search_sync returns: within its budget when it does not hang, in which
\* case wait_for hands its result on; after the timeout when it hangs
PoolFinish(i) ==
    /\ probe.fn = "pool" /\ probe.s[i].thread = "running"
    /\ IF probe.s[i].hang
       THEN /\ probe.s[i].coro = "timeout"
            /\ probe' = [probe EXCEPT !.s[i].thread = "finished"]
       ELSE /\ probe.s[i].coro = "waiting"
            /\ probe' = [probe EXCEPT !.s[i].thread = "finished",
                                      !.s[i].coro = "returned"]
    /\ UNCHANGED orch_vars

\* the timer of wait_for fires: the future is cancelled, which takes a queued
\* work item off the queue and leaves a running thread running, and search()
\* returns the timed-out error result
PoolTimeout(i) ==
    /\ probe.fn = "pool" /\ probe.s[i].coro = "waiting"
    /\ probe.s[i].waited >= Budget
    /\ probe' = [probe EXCEPT !.s[i].coro = "timeout",
                     !.s[i].thread = IF @ = "queued" THEN "cancelled" ELSE @]
    /\ UNCHANGED orch_vars

\* time passes for every search under wait_for.  Before it does, a free
\* worker has taken what is queued, every running search that does not hang
\* has returned, and every timer that is due has fired.
PoolTick ==
    /\ probe.fn = "pool"
    /\ \E i \in PoolSearches : probe.s[i].coro = "waiting"
    /\ \A i \in PoolSearches :
           /\ probe.s[i].coro = "waiting" => probe.s[i].waited < Budget
           /\ probe.s[i].thread = "running" => probe.s[i].hang
           /\ probe.s[i].thread = "queued" =>
                  Cardinality(Running(probe.s)) = MaxWorkers
    /\ probe' = [probe EXCEPT !.s =
                    [i \in PoolSearches |->
                        IF probe.s[i].coro = "waiting"
                        THEN [probe.s[i] EXCEPT !.waited = @ + 1]
                        ELSE probe.s[i]]]
    /\ UNCHANGED orch_vars

NextPool ==
    \/ \E i \in PoolSearches : PoolSubmit(i)
    \/ \E i \in PoolSearches : PoolStart(i)
    \/ \E i \in PoolSearches : PoolFinish(i)
    \/ \E i \in PoolSearches : PoolTimeout(i)
    \/ PoolTick

SpecPool == InitPool /\ [][NextPool]_vars

\* C20 as stated: a search returns the timeout error only when its own
\* search ran past the budget; a hung or timed-out search never makes another
\* search of the shared executor return it.
C20_AsStated ==
    probe.fn = "pool" =>
        \A i \in PoolSearches :
            probe.s[i].coro = "timeout" => probe.s[i].hang

-----------------------------------------------------------------------------
(* The browser engines of the process and the specification SpecEngines:    *)
(* searches of any jobs call search() of a browser adapter.  Delaware and   *)
(* New York hand _search_sync to the executor of their own module, whose    *)
(* worker launches chromium; Florida, New Jersey and Washington launch      *)
(* chromium in _run, on the event loop.  Each search is [code, st], st      *)
(* being "new", "queued", "launched" (its chromium is up) or "closed".      *)

BrowserAdapters == {"DE", "FL", "NJ", "NY", "WA"}

\* the adapters whose module owns a ThreadPoolExecutor
PooledAdapters == {"DE", "NY"}

\* the searches whose chromium is up
Launched(e) == {i \in PoolSearches : e[i].st = "launched"}

InitEngines ==
    /\ InitOrchIdle
    /\ probe \in {[fn |-> "engines",
                   e |-> [i \in PoolSearches |-> [code |-> c[i], st |-> "new"]]]
                  : c \in [PoolSearches -> BrowserAdapters]}

\* search(): run_in_executor queues _search_sync, or wait_for enters _run,
\* whose first await launches chromium
EngineSearch(i) ==
    /\ probe.fn = "engines" /\ probe.e[i].st = "new"
    /\ probe' = [probe EXCEPT !.e[i].st =
                     IF probe.e[i].code \in PooledAdapters THEN "queued"
                     ELSE "launched"]
    /\ UNCHANGED orch_vars

\* a free worker of the adapter's own executor takes the work item and
\* launches chromium
EngineWorker(i) ==
    /\ probe.fn = "engines" /\ probe.e[i].st = "queued"
    /\ Cardinality({k \in Launched(probe.e) : probe.e[k].code = probe.e[i].code})
           < MaxWorkers
    /\ probe' = [probe EXCEPT !.e[i].st = "launched"]
    /\ UNCHANGED orch_vars

\* browser.close() in the finally block
EngineClose(i) ==
    /\ probe.fn = "engines" /\ probe.e[i].st = "launched"
    /\ probe' = [probe EXCEPT !.e[i].st = "closed"]
    /\ UNCHANGED orch_vars

NextEngines ==
    \/ \E i \in PoolSearches : EngineSearch(i)
    \/ \E i \in PoolSearches : EngineWorker(i)
    \/ \E i \in PoolSearches : EngineClose(i)

SpecEngines == InitEngines /\ [][NextEngines]_vars

\* C21 as stated: at no time are more browser engines up in the process than
\* the worker pool has workers, however many searches are under way.
C21_AsStated ==
    probe.fn = "engines" => Cardinality(Launched(probe.e)) <= MaxWorkers

-----------------------------------------------------------------------------
(* rules/engine.py: the naming rule engine                                 *)
(* A pattern of the form \bw1\b|\bw2\b is the set of its words; a flag is  *)
(* [tag, text]: the text between its leading brackets, and what follows.   *)

NamingRule(words, message, severity, entity_types) ==
    [words |-> words, message |-> message, severity |-> severity,
     entity_types |-> entity_types]

\* RULES.get(state_code, [])
RULES(state_code) ==
    IF state_code = "DE"
    THEN <<NamingRule({"bank", "banking", "bankers"},
                      "Delaware requires approval from the Office of the State Bank Commissioner to use 'bank' or 'banking'.",
                      "warning", {}),
           NamingRule({"trust"},
                      "Delaware restricts use of 'trust' in entity names. Approval may be required.",
                      "warning", {}),
           NamingRule({"insurance", "assurance"},
                      "Delaware restricts use of 'insurance' - may require Dept. of Insurance approval.",
                      "warning", {}),
           NamingRule({"university", "college", "academy"},
                      "Using 'university', 'college', or 'academy' may require educational licensing.",
                      "warning", {}),
           NamingRule({"cooperative", "co-op", "coop"},
                      "Delaware cooperative entities have specific formation requirements.",
                      "info", {}),
           NamingRule({"inc", "corp", "incorporated", "corporation"},
                      "Suffix 'Inc.' / 'Corp.' is appropriate for Corporations, not LLCs.",
                      "warning", {"LLC", "LP", "LLP"}),
           NamingRule({"llc", "l.l.c"},
                      "Suffix 'LLC' is appropriate for LLCs, not Corporations.",
                      "warning", {"Corporation", "LP", "LLP"})>>
    ELSE <<>>

\* re.search(rule.pattern, name, re.IGNORECASE): some word of the name is a
\* word of the pattern, whatever its case
PatternFound(rule, name) ==
    \E i \in 1..Len(name) : LowerTok(name[i]) \in rule.words

\* a loop body that never looks at the rule's entity types
RuleFlags_any_entity_type(rule, name, entity_type) ==
    IF PatternFound(rule, name)
    THEN <<[tag |-> UpperTok(rule.severity), text |-> <<rule.message>>]>>
    ELSE <<>>

\* the loop body of apply_rules for one rule: the flag it appends, if any
RuleFlags(rule, name, entity_type) ==
    IF rule.entity_types # {} /\ entity_type \notin rule.entity_types THEN <<>>
    ELSE IF PatternFound(rule, name)
         THEN <<[tag |-> UpperTok(rule.severity), text |-> <<rule.message>>]>>
         ELSE <<>>

apply_rules(name, entity_type, state_code) ==
    LET state_rules == RULES(UpperTok(state_code))
    IN  Concat([i \in 1..Len(state_rules) |-> RuleFlags(state_rules[i], name, entity_type)])

get_rules_summary(state_code) ==
    IF UpperTok(state_code) = "DE"
    THEN "Delaware prohibits or restricts: 'bank', 'banking', 'trust', 'insurance', 'university', 'college'."
    ELSE "No specific rules encoded for this state."

-----------------------------------------------------------------------------
(* Inputs of apply_rules and the specification SpecRules: apply_rules is    *)
(* called twice on one drawn name, entity type and state code.              *)

RuleNames ==
    {<<"Acme">>,
     <<"Acme", Blank, "Bank", Blank, "Inc">>,
     <<"ACME", Blank, "BANKING">>,
     <<"Acme", Blank, "Banks">>,
     <<"Trust", Blank, "Bank">>,
     <<"bank", Blank, "Bank">>,
     <<"Acme", Blank, "Trust", Blank, "LLC">>,
     <<"Acme", Blank, "Inc", Blank, "LLC">>}

EntityTypeInputs == {"LLC", "Corporation", "LP", "llc", "Nonprofit"}

StateCodeInputs == {"DE", "de", "NY", ""}

InitRules ==
    /\ InitOrchIdle
    /\ probe \in {[fn |-> "apply_rules", name |-> n, entity_type |-> e,
                   state_code |-> c, outs |-> <<>>]
                  : n \in RuleNames, e \in EntityTypeInputs, c \in StateCodeInputs}

\* one call of apply_rules on the drawn arguments; RULES is read, never written
CallApplyRules ==
    /\ probe.fn = "apply_rules" /\ Len(probe.outs) < 2
    /\ probe' = [probe EXCEPT !.outs =
                     Append(@, apply_rules(probe.name, probe.entity_type,
                                           probe.state_code))]
    /\ UNCHANGED orch_vars

NextRules == CallApplyRules

SpecRules == InitRules /\ [][NextRules]_vars

\* the rule is declared for every entity type or for this one
Applicable(rule, entity_type) ==
    rule.entity_types = {} \/ entity_type \in rule.entity_types

\* "[SEVERITY] message"
FlagOf(rule) == [tag |-> UpperTok(rule.severity), text |-> <<rule.message>>]

\* the applicable matching rules of the jurisdiction, in declaration order
MatchingRules(name, entity_type, state_code) ==
    LET Hit(rule) == Applicable(rule, entity_type) /\ PatternFound(rule, name)
    IN  SelectSeq(RULES(UpperTok(state_code)), Hit)

\* C15: apply_rules returns exactly one "[SEVERITY] message" flag per
\* applicable matching rule, in declaration order, and nothing for a
\* jurisdiction without rules; a second call on the same arguments returns
\* the same list.
C15_ApplyRules ==
    probe.fn = "apply_rules" =>
        \A k \in DOMAIN probe.outs :
            LET hits == MatchingRules(probe.name, probe.entity_type, probe.state_code)
            IN  /\ Len(probe.outs[k]) = Len(hits)
                /\ \A i \in DOMAIN hits : probe.outs[k][i] = FlagOf(hits[i])
                /\ UpperTok(probe.state_code) # "DE" => probe.outs[k] = <<>>
                /\ probe.outs[k] = probe.outs[1]

\* "Acme Bank Inc" as an LLC in DE: the bank warning, then the suffix warning
C15_Witness ==
    /\ probe.fn = "apply_rules"
    /\ probe.name = <<"Acme", Blank, "Bank", Blank, "Inc">>
    /\ probe.entity_type = "LLC" /\ probe.state_code = "DE"
    /\ Len(probe.outs) = 2
    /\ probe.outs[2] =
           <<[tag |-> "WARNING",
              text |-> <<"Delaware requires approval from the Office of the State Bank Commissioner to use 'bank' or 'banking'.">>],
             [tag |-> "WARNING",
              text |-> <<"Suffix 'Inc.' / 'Corp.' is appropriate for Corporations, not LLCs.">>]>>

-----------------------------------------------------------------------------
(* agents/orchestrator.py and agents/uspto.py                              *)
(* A task is a coroutine handed to gather: [kind, code, pc, raised_in,     *)
(* result, flags, analyzer].  pc is the await the task is suspended at     *)
(* ("search", "similarity", "persist") or how it settled ("done",          *)
(* "raised"); analyzer lists the similar_names of each analyze_similarity  *)
(* call the task has made; events lists, in the order they happen, the     *)
(* calls of the task to the rule engine and to the capability.             *)

STATE_ADAPTERS == {"CA", "DE", "FL", "NJ", "NY", "WA"}

\* the slice bound of similar_names[:10]
SimilarNamesSent == 10

\* the condition of the similarity branch of _run_state
NeedsSimilarity(result) ==
    result.availability = "similar" /\ result.similar_names # <<>>

\* the argument similar_names=result.similar_names[:10]
NamesSent_all(result) == result.similar_names

NamesSent(result) == Take(result.similar_names, SimilarNamesSent)

AnalysisFailed(exc) ==
    [tag |-> "SIMILARITY", text |-> <<"Analysis failed:", exc>>]

\* the try/except around analyze_similarity: the flag it appends.  .get on a
\* value that is no object and .upper on a risk that is no text raise
\* AttributeError inside the try
SimilarityFlags_failure_silent(out) ==
    IF out.raised \/ out.value.kind # "dict" THEN <<>>
    ELSE <<[tag |-> "SIMILARITY", text |-> <<"Risk:">>]>>

SimilarityFlags(out) ==
    IF out.raised THEN <<AnalysisFailed(out.exc)>>
    ELSE IF out.value.kind # "dict" THEN <<AnalysisFailed("AttributeError")>>
    ELSE LET similarity == out.value.val
             risk == GetOr(similarity, "risk_level", JText(<<"unknown">>))
         IN  IF risk.kind # "str" THEN <<AnalysisFailed("AttributeError")>>
             ELSE <<[tag |-> "SIMILARITY",
                     text |-> <<"Risk:">> \o Upper(risk.val)
                              \o <<GetOr(similarity, "explanation", ""),
                                   GetOr(similarity, "recommendation", "")>>]>>

\* the StateResult row _run_state builds; task is the row's own identity
\* a row that keeps the confidence to one decimal
StateResult_one_decimal(job_id, task, result, flags) ==
    [job_id |-> job_id, task |-> task, state_code |-> result.state_code,
     availability |-> result.availability,
     confidence |-> (result.confidence \div 10) * 10,
     similar_names |-> result.similar_names, flags |-> flags \o result.flags,
     raw_matches |-> result.raw_matches, notes |-> result.notes]

StateResult(job_id, task, result, flags) ==
    [job_id |-> job_id, task |-> task, state_code |-> result.state_code,
     availability |-> result.availability, confidence |-> result.confidence,
     similar_names |-> result.similar_names, flags |-> flags \o result.flags,
     raw_matches |-> result.raw_matches, notes |-> result.notes]

\* the UsptoResult row search_uspto builds
UsptoResult(job_id) ==
    [job_id |-> job_id, exact_matches |-> <<>>, similar_marks |-> <<>>,
     risk_level |-> "unknown",
     notes |-> "Automated USPTO trademark search is temporarily unavailable."]

\* the coroutine _run_state(job_id, name, entity_type, adapter_cls())
StateTask(code) ==
    [kind |-> "state", code |-> code, pc |-> "search", raised_in |-> "",
     result |-> <<>>, flags |-> <<>>, analyzer |-> <<>>, events |-> <<>>]

\* the coroutine search_uspto(job_id, name)
UsptoTask ==
    [kind |-> "uspto", code |-> "USPTO", pc |-> "persist", raised_in |-> "",
     result |-> <<>>, flags |-> <<>>, analyzer |-> <<>>, events |-> <<>>]

\* the loop of run_search over the requested states, then the trademark task
RECURSIVE StateTasks(_)
StateTasks(states) ==
    IF states = <<>> THEN <<>>
    ELSE (IF Head(states) \in STATE_ADAPTERS THEN <<StateTask(Head(states))>> ELSE <<>>)
         \o StateTasks(Tail(states))

\* a loop that appends the trademark task inside its body
RECURSIVE LaunchedTasks_uspto_in_loop(_)
LaunchedTasks_uspto_in_loop(states) ==
    IF states = <<>> THEN <<>>
    ELSE (IF Head(states) \in STATE_ADAPTERS
          THEN <<StateTask(Head(states)), UsptoTask>> ELSE <<UsptoTask>>)
         \o LaunchedTasks_uspto_in_loop(Tail(states))

LaunchedTasks(states) == StateTasks(states) \o <<UsptoTask>>

Settled(task) == task.pc \in {"done", "raised"}

\* asyncio.gather(*tasks): with return_exceptions the call returns once every
\* task has settled and hands the exceptions back as values
gather_propagating(ts) ==
    IF \E t \in 1..Len(ts) : ts[t].pc = "raised" THEN "raised"
    ELSE IF \A t \in 1..Len(ts) : Settled(ts[t]) THEN "returned"
    ELSE "pending"

\* a wait that returns as soon as one task has settled
gather_first_settled(ts) ==
    IF \E t \in 1..Len(ts) : Settled(ts[t]) THEN "returned" ELSE "pending"

gather(ts) ==
    IF \A t \in 1..Len(ts) : Settled(ts[t]) THEN "returned" ELSE "pending"

-----------------------------------------------------------------------------
(* main.py: the job runner                                                 *)
(* runner[j] is [pc, cause]: where _run_and_signal of job j stands         *)
(* ("queued", "run_search", "gather", "except", "complete", "returned",    *)
(* "crashed") and, once run_search has raised, whether it raised while     *)
(* building the task list ("setup") or out of gather ("task").             *)

SUPPORTED_STATES == <<"DE">>

ENTITY_TYPES == {"LLC", "Corporation", "LP", "LLP", "PC", "PLLC"}

\* the job ids the store hands out
JobIds == {1}

\* [s.upper() for s in states if s.upper() in SUPPORTED_STATES]
RECURSIVE SupportedOf(_)
SupportedOf(states) ==
    IF states = <<>> THEN <<>>
    ELSE (IF UpperTok(Head(states)) \in Range(SUPPORTED_STATES)
          THEN <<UpperTok(Head(states))>> ELSE <<>>)
         \o SupportedOf(Tail(states))

\* Job(...) committed with status pending, the event registered in
\* _active_jobs and _run_and_signal queued as a background task
AddJob(name, entity_type, states) ==
    /\ Len(jobs) + 1 \in JobIds
    /\ jobs' = Append(jobs, [name |-> name, entity_type |-> entity_type,
                             states |-> states, status |-> "pending",
                             completed_at |-> FALSE])
    /\ runner' = Append(runner, [pc |-> "queued", cause |-> ""])
    /\ tasks' = Append(tasks, <<>>)
    /\ active_jobs' = active_jobs \cup {Len(jobs) + 1}
    /\ UNCHANGED <<state_results, uspto_results, done_events, probe>>

\* POST /api/search: a request that fails validation is answered 400 and
\* changes nothing
create_search(req) ==
    LET name == Strip(req.name)
        states == SupportedOf(IF req.states # <<>> THEN req.states
                              ELSE SUPPORTED_STATES)
    IN  IF name = <<>> \/ req.entity_type \notin ENTITY_TYPES \/ states = <<>>
        THEN UNCHANGED vars
        ELSE AddJob(name, req.entity_type, states)

\* _run_and_signal entered on a job whose states range over the whole
\* registry of the orchestrator, as a build with more supported states
\* queues it
queue_job(name, entity_type, states) == AddJob(name, entity_type, states)

SetRunner(j, pc, cause) == runner' = [runner EXCEPT ![j] = [pc |-> pc, cause |-> cause]]

\* a commit of the status alone
SetStatus_status_only(j, status, completed_at) ==
    jobs' = [jobs EXCEPT ![j].status = status]

SetStatus(j, status, completed_at) ==
    jobs' = [jobs EXCEPT ![j].status = status, ![j].completed_at = completed_at]

\* the first block of _run_and_signal: job.status = "running" and its commit;
\* a commit that raises leaves the background task dead
run_and_signal_start(j) ==
    /\ runner[j].pc = "queued"
    /\ \/ SetStatus(j, "running", jobs[j].completed_at) /\ SetRunner(j, "run_search", "")
       \/ SetRunner(j, "crashed", "") /\ UNCHANGED jobs
    /\ UNCHANGED <<state_results, uspto_results, tasks, active_jobs, done_events, probe>>

\* run_search up to its await: the task list is built and handed to gather;
\* an exception here is raised outside every task
run_search(j) ==
    /\ runner[j].pc = "run_search"
    /\ \/ /\ tasks' = [tasks EXCEPT ![j] = LaunchedTasks(jobs[j].states)]
          /\ SetRunner(j, "gather", "")
       \/ SetRunner(j, "except", "setup") /\ UNCHANGED tasks
    /\ UNCHANGED <<jobs, state_results, uspto_results, active_jobs, done_events, probe>>

\* the finally block: done_event.set() and _active_jobs.pop(job_id, None)
Finally(j) ==
    /\ done_events' = done_events \cup {j}
    /\ active_jobs' = active_jobs \ {j}

\* gather comes back and run_search with it: returning, the finally block runs
\* on the way to the last commit; raising, the except block is entered
run_search_gather(j) ==
    /\ runner[j].pc = "gather"
    /\ gather(tasks[j]) # "pending"
    /\ IF gather(tasks[j]) = "returned"
       THEN SetRunner(j, "complete", "") /\ Finally(j)
       ELSE SetRunner(j, "except", "task") /\ UNCHANGED <<active_jobs, done_events>>
    /\ UNCHANGED <<jobs, state_results, uspto_results, tasks, probe>>

\* an except block without its return: control falls through to the last block
run_and_signal_except_falls_through(j) ==
    /\ runner[j].pc = "except"
    /\ jobs' = [jobs EXCEPT ![j].status = "error", ![j].completed_at = TRUE]
    /\ runner' = [runner EXCEPT ![j] = [pc |-> "complete", cause |-> runner[j].cause]]
    /\ done_events' = done_events \cup {j}
    /\ active_jobs' = active_jobs \ {j}
    /\ UNCHANGED <<state_results, uspto_results, tasks, probe>>

\* the except block: status error and completed_at in one commit, then
\* return through the finally block; a commit that raises leaves through the
\* finally block as well
run_and_signal_except(j) ==
    /\ runner[j].pc = "except"
    /\ \/ SetStatus(j, "error", TRUE) /\ SetRunner(j, "returned", runner[j].cause)
       \/ SetRunner(j, "crashed", runner[j].cause) /\ UNCHANGED jobs
    /\ Finally(j)
    /\ UNCHANGED <<state_results, uspto_results, tasks, probe>>

\* a last block that reports a failed task as a failed job
run_and_signal_complete_strict(j) ==
    /\ runner[j].pc = "complete"
    /\ jobs' = [jobs EXCEPT ![j].completed_at = TRUE,
                            ![j].status =
                                IF \E t \in DOMAIN tasks[j] : tasks[j][t].pc = "raised"
                                THEN "error" ELSE "complete"]
    /\ runner' = [runner EXCEPT ![j] = [pc |-> "returned", cause |-> ""]]
    /\ UNCHANGED <<state_results, uspto_results, tasks, active_jobs, done_events, probe>>

\* the last block: status complete and completed_at in one commit
run_and_signal_complete(j) ==
    /\ runner[j].pc = "complete"
    /\ \/ SetStatus(j, "complete", TRUE) /\ SetRunner(j, "returned", "")
       \/ SetRunner(j, "crashed", "") /\ UNCHANGED jobs
    /\ UNCHANGED <<state_results, uspto_results, tasks, active_jobs, done_events, probe>>

\* _run_state from the return of adapter.search to its next await: the search
\* raises into the task, or its result is kept, the rules are applied and
\* either the analyzer is called or the row is about to be committed
run_state_search(j, t, site) ==
    LET task == tasks[j][t]
        out == Search(task.code, jobs[j].name, site)
        flags == apply_rules(jobs[j].name, jobs[j].entity_type, task.code)
        searched == IF CapabilityCalled(task.code, jobs[j].name, site)
                    THEN <<"interpret_state_page">> ELSE <<>>
    IN  /\ task.kind = "state" /\ task.pc = "search"
        /\ tasks' = [tasks EXCEPT ![j][t] =
               IF out.raised
               THEN [task EXCEPT !.pc = "raised", !.raised_in = "search",
                                 !.events = searched]
               ELSE IF NeedsSimilarity(out.value)
               THEN [task EXCEPT !.pc = "similarity", !.result = out.value,
                                 !.flags = flags,
                                 !.analyzer = <<NamesSent(out.value)>>,
                                 !.events = searched \o
                                     <<"apply_rules", "analyze_similarity">>]
               ELSE [task EXCEPT !.pc = "persist", !.result = out.value,
                                 !.flags = flags,
                                 !.events = searched \o <<"apply_rules">>]]
        /\ UNCHANGED <<jobs, state_results, uspto_results, runner, active_jobs,
                       done_events, probe>>

\* analyze_similarity comes back, by return or by exception, and its flag is
\* appended
run_state_similarity(j, t, call) ==
    LET task == tasks[j][t]
        out == analyze_similarity(task.analyzer[Len(task.analyzer)], call)
    IN  /\ task.kind = "state" /\ task.pc = "similarity"
        /\ tasks' = [tasks EXCEPT ![j][t] =
               [task EXCEPT !.pc = "persist",
                            !.flags = task.flags \o SimilarityFlags(out)]]
        /\ UNCHANGED <<jobs, state_results, uspto_results, runner, active_jobs,
                       done_events, probe>>

\* a persist step that keeps one row per job and source: it writes over the
\* row an earlier task of the job stored for the same source
run_state_persist_upsert(j, t) ==
    LET task == tasks[j][t]
        row == StateResult(j, t, task.result, task.flags)
        old == {i \in DOMAIN state_results :
                   /\ state_results[i].job_id = j
                   /\ state_results[i].state_code = row.state_code}
    IN  /\ task.kind = "state" /\ task.pc = "persist"
        /\ \/ /\ state_results' =
                     IF old = {} THEN Append(state_results, row)
                     ELSE [i \in DOMAIN state_results |->
                              IF i \in old THEN row ELSE state_results[i]]
              /\ tasks' = [tasks EXCEPT ![j][t].pc = "done"]
           \/ /\ tasks' = [tasks EXCEPT ![j][t].pc = "raised",
                                        ![j][t].raised_in = "persist"]
              /\ UNCHANGED state_results
        /\ UNCHANGED <<jobs, uspto_results, runner, active_jobs, done_events, probe>>

\* a persist step that holds its row back until every sibling has its own
\* result ready
run_state_persist_batched(j, t) ==
    LET task == tasks[j][t]
    IN  /\ task.kind = "state" /\ task.pc = "persist"
        /\ \A u \in DOMAIN tasks[j] : tasks[j][u].pc \in {"persist", "done", "raised"}
        /\ \/ /\ state_results' =
                     Append(state_results, StateResult(j, t, task.result, task.flags))
              /\ tasks' = [tasks EXCEPT ![j][t].pc = "done"]
           \/ /\ tasks' = [tasks EXCEPT ![j][t].pc = "raised",
                                        ![j][t].raised_in = "persist"]
              /\ UNCHANGED state_results
        /\ UNCHANGED <<jobs, uspto_results, runner, active_jobs, done_events, probe>>

\* db.add(state_result) and its commit: the row is stored, or the commit
\* raises into the task
run_state_persist(j, t) ==
    LET task == tasks[j][t]
    IN  /\ task.kind = "state" /\ task.pc = "persist"
        /\ \/ /\ state_results' =
                     Append(state_results, StateResult(j, t, task.result, task.flags))
              /\ tasks' = [tasks EXCEPT ![j][t].pc = "done"]
           \/ /\ tasks' = [tasks EXCEPT ![j][t].pc = "raised",
                                        ![j][t].raised_in = "persist"]
              /\ UNCHANGED state_results
        /\ UNCHANGED <<jobs, uspto_results, runner, active_jobs, done_events, probe>>

\* search_uspto: the row and its commit
search_uspto(j, t) ==
    LET task == tasks[j][t]
    IN  /\ task.kind = "uspto" /\ task.pc = "persist"
        /\ \/ /\ uspto_results' = Append(uspto_results, UsptoResult(j))
              /\ tasks' = [tasks EXCEPT ![j][t].pc = "done"]
           \/ /\ tasks' = [tasks EXCEPT ![j][t].pc = "raised",
                                        ![j][t].raised_in = "persist"]
              /\ UNCHANGED uspto_results
        /\ UNCHANGED <<jobs, state_results, runner, active_jobs, done_events, probe>>

-----------------------------------------------------------------------------
(* Inputs of the orchestrator                                              *)

JobName == <<"Acme", Blank, "Bank">>

SimilarRegistry == <<<<<<"Acme", Blank, "Group">>, <<"Active">>>>>>

TakenRegistry ==
    <<<<<<"ACME", Blank, "BANK">>, <<"Dissolved">>>>,
      <<<<"Acme", Blank, "Group">>, <<"Active">>>>>>

\* one entry more than the analyzer is sent
LongRegistry ==
    [i \in 1..(SimilarNamesSent + 1) |->
        <<<<"Acme", Blank, ToString(i)>>, <<"Active">>>>]

NoLlm == [fault |-> TRUE, content |-> <<>>]

\* the capability reads the page as similar and names nothing
LlmSimilarUnnamed ==
    [fault |-> FALSE, content |-> <<TextBlock(
        JDict([availability |-> "similar", similar_names |-> <<>>,
               clarity |-> "inferred", notes |-> <<"one sentence from the model">>]))>>]

\* the capability answers with a word of its own for the availability
LlmOffVocabulary ==
    [fault |-> FALSE, content |-> <<TextBlock(
        JDict([availability |-> "maybe", similar_names |-> <<>>,
               clarity |-> "clear", notes |-> <<"one sentence from the model">>]))>>]

\* what a search of the job's name can meet at each source
OrchSites(code) ==
    IF code \notin STATE_ADAPTERS THEN {}
    ELSE IF code = "CA"
    THEN {[api_key |-> TRUE, http |-> "ok", data |-> JDict([results |-> JInt(7)])],
          [api_key |-> TRUE, http |-> "ok", data |-> JList(CaRows(SimilarRegistry))],
          [api_key |-> FALSE, http |-> "ok", data |-> JList(<<>>)]}
    ELSE IF code = "DE"
    THEN {GoodPage(code, FALSE, TRUE, SimilarRegistry, NoLlm),
          GoodPage(code, FALSE, TRUE, TakenRegistry, NoLlm),
          GoodPage(code, FALSE, TRUE, <<>>, LlmSimilarUnnamed),
          GoodPage(code, FALSE, TRUE, <<>>, LlmOffVocabulary),
          [GoodPage(code, FALSE, TRUE, <<>>, NoLlm) EXCEPT !.hang = TRUE]}
    ELSE {GoodPage(code, FALSE, TRUE, SimilarRegistry, NoLlm),
          GoodPage(code, FALSE, TRUE, LongRegistry, NoLlm),
          GoodPage(code, TRUE, FALSE, <<>>, NoLlm)}

\* what the similarity call can come back with
OrchLlmCalls ==
    {NoLlm,
     [fault |-> FALSE, content |-> <<TextBlock(JList(<<>>))>>],
     [fault |-> FALSE, content |-> <<TextBlock(
         JDict([risk_level |-> JText(<<"low">>),
                conflicting_names |-> <<>>,
                explanation |-> "explanation from the model",
                recommendation |-> "recommendation from the model"]))>>]}

SearchRequests ==
    {[name |-> <<Blank, "Acme", Blank, "Bank", Blank>>, entity_type |-> "LLC",
      states |-> <<>>],
     [name |-> <<"Acme", Blank, "Bank">>, entity_type |-> "LLC",
      states |-> <<"de", "CA", "DE">>],
     [name |-> <<Blank>>, entity_type |-> "LLC", states |-> <<"DE">>],
     [name |-> <<"Acme">>, entity_type |-> "Trust", states |-> <<"DE">>],
     [name |-> <<"Acme">>, entity_type |-> "LLC", states |-> <<"NY">>]}

\* the states lists of the jobs queued over the whole registry
QueuedStates == {<<"CA", "DE", "NJ">>, <<"XX", "DE">>, <<>>}

Init ==
    /\ InitOrchIdle
    /\ probe = [fn |-> "none"]

Next ==
    \/ \E req \in SearchRequests : create_search(req)
    \/ \E states \in QueuedStates : queue_job(JobName, "LLC", states)
    \/ \E j \in DOMAIN jobs : run_and_signal_start(j)
    \/ \E j \in DOMAIN jobs : run_search(j)
    \/ \E j \in DOMAIN jobs : \E t \in DOMAIN tasks[j] :
           \E site \in OrchSites(tasks[j][t].code) : run_state_search(j, t, site)
    \/ \E j \in DOMAIN jobs : \E t \in DOMAIN tasks[j] :
           \E call \in OrchLlmCalls : run_state_similarity(j, t, call)
    \/ \E j \in DOMAIN jobs : \E t \in DOMAIN tasks[j] : run_state_persist(j, t)
    \/ \E j \in DOMAIN jobs : \E t \in DOMAIN tasks[j] : search_uspto(j, t)
    \/ \E j \in DOMAIN jobs : run_search_gather(j)
    \/ \E j \in DOMAIN jobs : run_and_signal_except(j)
    \/ \E j \in DOMAIN jobs : run_and_signal_complete(j)

Spec == Init /\ [][Next]_vars

\* the steps of the background task of a job and of the tasks it launched:
\* every await of theirs comes back, by return or by exception
JobSteps ==
    \/ \E j \in DOMAIN jobs : run_and_signal_start(j)
    \/ \E j \in DOMAIN jobs : run_search(j)
    \/ \E j \in DOMAIN jobs : \E t \in DOMAIN tasks[j] :
           \E site \in OrchSites(tasks[j][t].code) : run_state_search(j, t, site)
    \/ \E j \in DOMAIN jobs : \E t \in DOMAIN tasks[j] :
           \E call \in OrchLlmCalls : run_state_similarity(j, t, call)
    \/ \E j \in DOMAIN jobs : \E t \in DOMAIN tasks[j] : run_state_persist(j, t)
    \/ \E j \in DOMAIN jobs : \E t \in DOMAIN tasks[j] : search_uspto(j, t)
    \/ \E j \in DOMAIN jobs : run_search_gather(j)
    \/ \E j \in DOMAIN jobs : run_and_signal_except(j)
    \/ \E j \in DOMAIN jobs : run_and_signal_complete(j)

\* Spec with the event loop running whatever is ready to run
SpecLive == Spec /\ WF_vars(JobSteps)

-----------------------------------------------------------------------------
(* main.py: the endpoints that read the store, and the specification        *)
(* SpecApi, in which jobs run while a client reads them.  probe holds what   *)
(* the client has: [fn |-> "api", reader |-> "none"], the response of        *)
(* GET /api/jobs/{id} ([reader |-> "get_job", job_id, response]) or its      *)
(* event stream ([reader |-> "stream", job_id, sent, events, open, pc,      *)
(* seen]: pc is the await the generator stands at, seen the status of the    *)
(* job object of the round).  The id of a row is its position in its table.  *)

\* select(StateResult).where(StateResult.job_id == job_id), as row ids
StateRowsOf(job_id) ==
    [k \in 1..Cardinality({i \in DOMAIN state_results : state_results[i].job_id = job_id}) |->
        CHOOSE i \in DOMAIN state_results :
            /\ state_results[i].job_id = job_id
            /\ Cardinality({h \in 1..i : state_results[h].job_id = job_id}) = k]

\* select(UsptoResult).where(UsptoResult.job_id == job_id), as row ids
UsptoRowsOf(job_id) ==
    {i \in DOMAIN uspto_results : uspto_results[i].job_id = job_id}

\* the dict both endpoints build of a StateResult row
StateRowView(r) ==
    [state_code |-> r.state_code, availability |-> r.availability,
     confidence |-> r.confidence, similar_names |-> r.similar_names,
     flags |-> r.flags, raw_matches |-> r.raw_matches, notes |-> r.notes]

\* the dict both endpoints build of a UsptoResult row
UsptoRowView(u) ==
    [exact_matches |-> u.exact_matches, similar_marks |-> u.similar_marks,
     risk_level |-> u.risk_level, notes |-> u.notes]

\* GET /api/jobs/{job_id}: 404 for an unknown job; scalar_one_or_none raises
\* on a second trademark row
get_job_response(job_id) ==
    IF job_id \notin DOMAIN jobs THEN Raised("HTTP 404")
    ELSE IF Cardinality(UsptoRowsOf(job_id)) > 1 THEN Raised("MultipleResultsFound")
    ELSE LET ids == StateRowsOf(job_id)
         IN  Returned(
                 [job_id |-> job_id, name |-> jobs[job_id].name,
                  entity_type |-> jobs[job_id].entity_type,
                  status |-> jobs[job_id].status,
                  state_results |-> [k \in DOMAIN ids |->
                                        StateRowView(state_results[ids[k]])],
                  uspto_result |->
                      IF UsptoRowsOf(job_id) = {} THEN <<>>
                      ELSE <<UsptoRowView(uspto_results[
                                 CHOOSE i \in UsptoRowsOf(job_id) : TRUE])>>])

get_job(job_id) ==
    /\ probe.fn = "api"
    /\ probe' = [fn |-> "api", reader |-> "get_job", job_id |-> job_id,
                 response |-> get_job_response(job_id)]
    /\ UNCHANGED orch_vars

\* GET /api/jobs/{job_id}/stream: the generator is created
stream_results(job_id) ==
    /\ probe.fn = "api"
    /\ probe' = [fn |-> "api", reader |-> "stream", job_id |-> job_id,
                 sent |-> {}, events |-> <<>>, open |-> TRUE,
                 pc |-> "job", seen |-> "pending"]
    /\ UNCHANGED orch_vars

\* a round that yields every row it selected
StateEvents_every_round(ids, sent) ==
    [k \in DOMAIN ids |->
        [event |-> "state_result", data |-> StateRowView(state_results[ids[k]])]]

\* the events of the rows of ids (ascending) that were not sent yet
RECURSIVE StateEvents(_, _)
StateEvents(ids, sent) ==
    IF ids = <<>> THEN <<>>
    ELSE (IF <<"state", Head(ids)>> \in sent THEN <<>>
          ELSE <<[event |-> "state_result",
                  data |-> StateRowView(state_results[Head(ids)])]>>)
         \o StateEvents(Tail(ids), sent)

\* the status the round tests at its end: that of the job object the round
\* fetched first
RoundStatus_requeried(job_id, seen) == jobs[job_id].status

RoundStatus(job_id, seen) == seen

\* a test that knows one terminal status only
Terminal_complete_only(status) == status = "complete"

\* job.status in ("complete", "error")
Terminal(status) == status \in {"complete", "error"}

\* a round of the loop of event_generator, first await: db.get(Job, job_id)
event_generator_job(job_id) ==
    /\ probe.pc = "job"
    /\ IF job_id \notin DOMAIN jobs
       THEN probe' = [probe EXCEPT
                !.events = Append(@, [event |-> "error", data |-> "Job not found"]),
                !.open = FALSE]
       ELSE probe' = [probe EXCEPT !.pc = "state_results",
                                   !.seen = jobs[job_id].status]

\* second await: the select of the state results, and the events of the new rows
event_generator_state_results(job_id) ==
    /\ probe.pc = "state_results"
    /\ LET ids == StateRowsOf(job_id)
       IN  probe' = [probe EXCEPT
               !.events = @ \o StateEvents(ids, probe.sent),
               !.sent = @ \cup {<<"state", ids[k]>> : k \in DOMAIN ids},
               !.pc = "uspto_result"]

\* third await: the select of the trademark result, its event, and the test
\* of job.status that ends the stream or starts the wait for the next round
event_generator_uspto_result(job_id) ==
    /\ probe.pc = "uspto_result"
    /\ LET us == UsptoRowsOf(job_id)
           mark == IF Cardinality(us) = 1 /\ \A i \in us : <<"uspto", i>> \notin probe.sent
                   THEN <<[event |-> "uspto_result",
                           data |-> UsptoRowView(uspto_results[CHOOSE i \in us : TRUE])]>>
                   ELSE <<>>
           status == RoundStatus(job_id, probe.seen)
           over == Terminal(status)
       IN  IF Cardinality(us) > 1
           THEN probe' = [probe EXCEPT !.open = FALSE]
           ELSE probe' = [probe EXCEPT
                    !.events = @ \o mark \o
                        (IF over THEN <<[event |-> "done", data |-> status]>>
                         ELSE <<>>),
                    !.sent = @ \cup {<<"uspto", i>> : i \in us},
                    !.pc = "job",
                    !.open = ~over]

\* the loop of event_generator, from one await to the next
event_generator(job_id) ==
    /\ probe.fn = "api" /\ probe.reader = "stream" /\ probe.open
    /\ probe.job_id = job_id
    /\ \/ event_generator_job(job_id)
       \/ event_generator_state_results(job_id)
       \/ event_generator_uspto_result(job_id)
    /\ UNCHANGED orch_vars

\* what a search meets while a client reads: names to compare, or a page
\* for the capability to read
ApiSites(code) ==
    IF code \notin STATE_ADAPTERS THEN {}
    ELSE IF code = "CA"
    THEN {[api_key |-> TRUE, http |-> "ok", data |-> JList(CaRows(SimilarRegistry))]}
    ELSE {GoodPage(code, FALSE, TRUE, SimilarRegistry, NoLlm),
          GoodPage(code, FALSE, TRUE, <<>>, LlmSimilarUnnamed)}

ApiRequests ==
    {[name |-> <<"Acme", Blank, "Bank">>, entity_type |-> "LLC",
      states |-> <<"de", "CA", "DE">>]}

ApiQueuedStates == {<<"DE", "NJ">>}

\* the job ids a client asks for: the job's, and one never issued
ApiJobIds == JobIds \cup {0}

InitApi ==
    /\ InitOrchIdle
    /\ probe = [fn |-> "api", reader |-> "none"]

\* the steps of the jobs and of their tasks over the sites of ApiSites
JobSteps_Api ==
    \/ \E j \in DOMAIN jobs : run_and_signal_start(j)
    \/ \E j \in DOMAIN jobs : run_search(j)
    \/ \E j \in DOMAIN jobs : \E t \in DOMAIN tasks[j] :
           \E site \in ApiSites(tasks[j][t].code) : run_state_search(j, t, site)
    \/ \E j \in DOMAIN jobs : \E t \in DOMAIN tasks[j] :
           \E call \in OrchLlmCalls : run_state_similarity(j, t, call)
    \/ \E j \in DOMAIN jobs : \E t \in DOMAIN tasks[j] : run_state_persist(j, t)
    \/ \E j \in DOMAIN jobs : \E t \in DOMAIN tasks[j] : search_uspto(j, t)
    \/ \E j \in DOMAIN jobs : run_search_gather(j)
    \/ \E j \in DOMAIN jobs : run_and_signal_except(j)
    \/ \E j \in DOMAIN jobs : run_and_signal_complete(j)

NextApi ==
    \/ \E req \in ApiRequests : create_search(req)
    \/ \E states \in ApiQueuedStates : queue_job(JobName, "LLC", states)
    \/ \E j \in DOMAIN jobs : run_and_signal_start(j)
    \/ \E j \in DOMAIN jobs : run_search(j)
    \/ \E j \in DOMAIN jobs : \E t \in DOMAIN tasks[j] :
           \E site \in ApiSites(tasks[j][t].code) : run_state_search(j, t, site)
    \/ \E j \in DOMAIN jobs : \E t \in DOMAIN tasks[j] :
           \E call \in OrchLlmCalls : run_state_similarity(j, t, call)
    \/ \E j \in DOMAIN jobs : \E t \in DOMAIN tasks[j] : run_state_persist(j, t)
    \/ \E j \in DOMAIN jobs : \E t \in DOMAIN tasks[j] : search_uspto(j, t)
    \/ \E j \in DOMAIN jobs : run_search_gather(j)
    \/ \E j \in DOMAIN jobs : run_and_signal_except(j)
    \/ \E j \in DOMAIN jobs : run_and_signal_complete(j)
    \/ \E id \in ApiJobIds : get_job(id)
    \/ \E id \in ApiJobIds : stream_results(id)
    \/ \E id \in ApiJobIds : event_generator(id)

SpecApi == InitApi /\ [][NextApi]_vars

\* one client that opens one stream and reads it for as long as it is open;
\* the id it names is that of a job create_search has issued, or one that is
\* never issued
NextStream ==
    \/ \E req \in ApiRequests : create_search(req)
    \/ \E states \in ApiQueuedStates : queue_job(JobName, "LLC", states)
    \/ JobSteps_Api
    \/ \E id \in ApiJobIds \ (JobIds \ DOMAIN jobs) :
           probe.reader = "none" /\ stream_results(id)
    \/ \E id \in ApiJobIds : event_generator(id)

SpecStream ==
    InitApi /\ [][NextStream]_vars /\ WF_vars(\E id \in ApiJobIds : event_generator(id))

-----------------------------------------------------------------------------
(* Claims about the orchestrator and the job runner (Spec)                 *)

StateTaskIds(j) == {t \in DOMAIN tasks[j] : tasks[j][t].kind = "state"}

SearchRaised(j, t) ==
    tasks[j][t].pc = "raised" /\ tasks[j][t].raised_in = "search"

\* the task's search has returned a result
HasResult(j, t) ==
    \/ tasks[j][t].pc \in {"similarity", "persist", "done"}
    \/ tasks[j][t].pc = "raised" /\ tasks[j][t].raised_in = "persist"

RowsOfTask(j, t) ==
    {r \in 1..Len(state_results) :
        state_results[r].job_id = j /\ state_results[r].task = t}

GatherReturned(j) == runner[j].pc \in {"complete", "returned", "crashed"}

\* C1: when the search of one source task of a job raises, the raise never
\* becomes a failure of the run; once gather has returned every other source
\* task has run to its persist step, with its row stored unless its own commit
\* failed; and the runner, returning, leaves the job complete.
C1_Isolation ==
    \A j \in DOMAIN jobs :
        (\E t \in StateTaskIds(j) : SearchRaised(j, t)) =>
            /\ runner[j].cause # "task"
            /\ jobs[j].status # "error"
            /\ GatherReturned(j) =>
                   \A u \in StateTaskIds(j) :
                       ~SearchRaised(j, u) =>
                           \/ tasks[j][u].pc = "done" /\ RowsOfTask(j, u) # {}
                           \/ /\ tasks[j][u].pc = "raised"
                              /\ tasks[j][u].raised_in = "persist"
            /\ runner[j].pc = "returned" => jobs[j].status = "complete"

\* a complete job of three sources: one search raised, two rows are stored
C1_Witness ==
    \E j \in DOMAIN jobs :
        /\ jobs[j].status = "complete"
        /\ \E t \in StateTaskIds(j) : SearchRaised(j, t)
        /\ Cardinality({u \in StateTaskIds(j) :
                            tasks[j][u].pc = "done" /\ RowsOfTask(j, u) # {}}) = 2

StatusEdges ==
    {<<"pending", "running">>, <<"running", "complete">>, <<"running", "error">>}

\* C3: a job is created pending; its status changes only along
\* pending -> running -> {complete, error}, so complete and error are final;
\* and no task of a job exists while the job is still pending.
C3_StatusMachine ==
    /\ [][\A j \in DOMAIN jobs' :
              IF j \in DOMAIN jobs
              THEN \/ jobs'[j].status = jobs[j].status
                   \/ <<jobs[j].status, jobs'[j].status>> \in StatusEdges
              ELSE jobs'[j].status = "pending"]_vars
    /\ [](\A j \in DOMAIN jobs : tasks[j] # <<>> => jobs[j].status # "pending")

\* a job that went through running to complete with its tasks launched
C3_Witness ==
    \E j \in DOMAIN jobs :
        /\ jobs[j].status = "complete"
        /\ tasks[j] # <<>>
        /\ runner[j].pc = "returned"

\* C4: a job has status error only if run_search raised outside every task;
\* when it did and the runner returned, the status is error; and no job with
\* a raised task (search, similarity or commit fault) has status error.
C4_ErrorCause ==
    \A j \in DOMAIN jobs :
        /\ jobs[j].status = "error" => runner[j].cause = "setup"
        /\ (runner[j].cause = "setup" /\ runner[j].pc = "returned") =>
               jobs[j].status = "error"
        /\ (\E t \in DOMAIN tasks[j] : tasks[j][t].pc = "raised") =>
               jobs[j].status # "error"

\* run_search raised while building the task list and the job is in error
C4_Witness ==
    \E j \in DOMAIN jobs :
        /\ jobs[j].status = "error"
        /\ runner[j].cause = "setup"
        /\ tasks[j] = <<>>

\* C5: when a job is complete, every requested source with a registered
\* adapter has a row of the job, and every failed source task has a row with
\* availability error.
C5_AsStated ==
    \A j \in DOMAIN jobs :
        jobs[j].status = "complete" =>
            /\ \A i \in 1..Len(jobs[j].states) :
                   jobs[j].states[i] \in STATE_ADAPTERS =>
                       \E r \in 1..Len(state_results) :
                           /\ state_results[r].job_id = j
                           /\ state_results[r].state_code = jobs[j].states[i]
            /\ \A t \in StateTaskIds(j) :
                   tasks[j][t].pc = "raised" =>
                       \E r \in RowsOfTask(j, t) :
                           state_results[r].availability = "error"

\* C6: a source task has called the analyzer exactly when its result is
\* similar with a non-empty similar_names list, it calls it once, and the
\* names it sends are the first 10 of the result's, never more.
C6_AnalyzerInvocation ==
    \A j \in DOMAIN jobs : \A t \in StateTaskIds(j) :
        LET task == tasks[j][t]
        IN  IF HasResult(j, t)
            THEN /\ (task.analyzer # <<>>) <=>
                        (task.result.availability = "similar"
                         /\ task.result.similar_names # <<>>)
                 /\ Len(task.analyzer) <= 1
                 /\ task.analyzer # <<>> =>
                        /\ Len(task.analyzer[1]) <= 10
                        /\ \A i \in 1..Len(task.analyzer[1]) :
                               task.analyzer[1][i] = task.result.similar_names[i]
                        /\ Len(task.analyzer[1]) < 10 =>
                               Len(task.analyzer[1]) = Len(task.result.similar_names)
            ELSE task.analyzer = <<>>

\* the analyzer was sent 10 names of a result that has more
C6_Witness ==
    \E j \in DOMAIN jobs : \E t \in StateTaskIds(j) :
        /\ HasResult(j, t)
        /\ tasks[j][t].analyzer # <<>>
        /\ Len(tasks[j][t].analyzer[1]) = 10
        /\ Len(tasks[j][t].result.similar_names) > 10

SimilarityFlagCount(flags) ==
    Cardinality({i \in 1..Len(flags) : flags[i].tag = "SIMILARITY"})

\* C7: the return of the analyzer, by value or by exception, leaves the task's
\* result as it was and takes the task to its persist step; and every stored
\* row of a task that called the analyzer carries the adapter's availability,
\* confidence and similar_names and exactly one flag tagged [SIMILARITY].
C7_AnalyzerFailure ==
    /\ [][\A j \in DOMAIN jobs : \A t \in DOMAIN tasks[j] :
              (tasks[j][t].pc = "similarity" /\ tasks'[j][t] # tasks[j][t]) =>
                  /\ tasks'[j][t].pc = "persist"
                  /\ tasks'[j][t].result = tasks[j][t].result]_vars
    /\ [](\A r \in 1..Len(state_results) :
              LET row == state_results[r]
                  task == tasks[row.job_id][row.task]
              IN  task.analyzer # <<>> =>
                      /\ row.availability = task.result.availability
                      /\ row.confidence = task.result.confidence
                      /\ row.similar_names = task.result.similar_names
                      /\ SimilarityFlagCount(row.flags) = 1)

\* a stored row whose analyzer call failed
C7_Witness ==
    \E r \in 1..Len(state_results) :
        /\ tasks[state_results[r].job_id][state_results[r].task].analyzer # <<>>
        /\ state_results[r].availability = "similar"
        /\ \E i \in 1..Len(state_results[r].flags) :
               /\ state_results[r].flags[i].tag = "SIMILARITY"
               /\ state_results[r].flags[i].text[1] = "Analysis failed:"

\* the five values of availability
AvailabilityVocabulary == {"available", "taken", "similar", "unknown", "error"}

\* C14 as stated: every persisted state result has an availability among the
\* five values and a confidence within [0,1], results of the llm tier included.
C14_AsStated ==
    \A i \in DOMAIN state_results :
        /\ state_results[i].availability \in AvailabilityVocabulary
        /\ state_results[i].confidence >= 0 /\ state_results[i].confidence <= 100
\* the calls to the capability a task makes
CapabilityEvents == {"interpret_state_page", "analyze_similarity"}

\* C16 as stated: in every source task apply_rules runs before any call the
\* task makes to the interpretation capability, the page interpretation of
\* the llm tier and the similarity call alike.
C16_AsStated ==
    \A j \in DOMAIN tasks : \A t \in DOMAIN tasks[j] :
        LET ev == tasks[j][t].events
        IN  \A k \in DOMAIN ev :
                ev[k] \in CapabilityEvents =>
                    \E i \in 1..(k - 1) : ev[i] = "apply_rules"
\* C22 as stated: no two persisted state results carry the same job id and
\* the same source id, whatever request create_search accepted.
C22_AsStated ==
    \A a, b \in DOMAIN state_results :
        (/\ state_results[a].job_id = state_results[b].job_id
         /\ state_results[a].state_code = state_results[b].state_code) => a = b

\* C23: every step of the orchestrator, the adapters, the stream and the job
\* endpoint leaves each persisted state result as it is and deletes none; a
\* step adds at most one row, the row of the task that takes its persist
\* step, and that task had no row before.
C23_AppendOnly ==
    [][/\ Len(state_results') >= Len(state_results)
       /\ Len(state_results') <= Len(state_results) + 1
       /\ \A i \in DOMAIN state_results : state_results'[i] = state_results[i]
       /\ Len(state_results') = Len(state_results) + 1 =>
              LET r == state_results'[Len(state_results')]
              IN  /\ r.job_id \in DOMAIN tasks /\ r.task \in DOMAIN tasks[r.job_id]
                  /\ tasks[r.job_id][r.task].pc = "persist"
                  /\ tasks'[r.job_id][r.task].pc = "done"
                  /\ \A i \in DOMAIN state_results :
                         ~(state_results[i].job_id = r.job_id
                           /\ state_results[i].task = r.task)]_vars

\* two tasks of one job have stored their rows and a stream has sent them
C23_Witness ==
    /\ probe.fn = "api" /\ probe.reader = "stream"
    /\ Len(probe.events) >= 2
    /\ \E a, b \in DOMAIN state_results :
           /\ a # b
           /\ state_results[a].job_id = state_results[b].job_id
           /\ state_results[a].state_code = state_results[b].state_code

\* the trademark tasks of a job
UsptoTaskIds(j) == {t \in DOMAIN tasks[j] : tasks[j][t].kind = "uspto"}

\* C24: a job never has more than one trademark row, and a run that got as
\* far as gather launched exactly one trademark task, whatever sources the
\* job lists.
C24_OneUsptoResult ==
    \A j \in DOMAIN jobs :
        /\ Cardinality(UsptoRowsOf(j)) <= 1
        /\ Cardinality(UsptoTaskIds(j)) <= 1
        /\ runner[j].pc = "gather" => Cardinality(UsptoTaskIds(j)) = 1
        /\ UsptoRowsOf(j) # {} => Cardinality(UsptoTaskIds(j)) = 1

\* a complete job that lists one source twice and has its trademark row
C24_Witness ==
    \E j \in DOMAIN jobs :
        /\ jobs[j].status = "complete"
        /\ jobs[j].states = <<"DE", "DE">>
        /\ Cardinality(UsptoRowsOf(j)) = 1
        /\ Cardinality(StateTaskIds(j)) = 2

\* the rows of either table that belong to job j
RowCount(states_table, uspto_table, j) ==
    Cardinality({i \in DOMAIN states_table : states_table[i].job_id = j})
    + Cardinality({i \in DOMAIN uspto_table : uspto_table[i].job_id = j})

\* C25: a job is complete only when every task launched for it has settled,
\* and a row of a job, state result or trademark result, is stored only
\* while the job's status is running: never while it is pending, never once
\* it is complete or error.
C25_PersistWhileRunning ==
    /\ [](\A j \in DOMAIN jobs :
              jobs[j].status = "complete" =>
                  \A t \in DOMAIN tasks[j] : Settled(tasks[j][t]))
    /\ [][\A j \in DOMAIN jobs :
              RowCount(state_results', uspto_results', j)
                  # RowCount(state_results, uspto_results, j)
              => jobs[j].status = "running" /\ jobs'[j].status = "running"]_vars

\* a complete job with stored rows of three source tasks and the trademark
\* task, all settled
C25_Witness ==
    \E j \in DOMAIN jobs :
        /\ jobs[j].status = "complete"
        /\ RowCount(state_results, uspto_results, j) = 4
        /\ \A t \in DOMAIN tasks[j] : tasks[j][t].pc = "done"

\* C26: a source task whose search, rule and similarity steps are done can
\* store its row at once, whatever its siblings are doing; a row stored is in
\* what the job endpoint returns from then on.
C26_Incremental ==
    /\ \A j \in DOMAIN jobs : \A t \in DOMAIN tasks[j] :
           (tasks[j][t].kind = "state" /\ tasks[j][t].pc = "persist") =>
               ENABLED run_state_persist(j, t)
    /\ \A j \in DOMAIN jobs :
           /\ ~get_job_response(j).raised
           /\ Len(get_job_response(j).value.state_results) =
                  Cardinality({i \in DOMAIN state_results : state_results[i].job_id = j})

\* the job endpoint has answered status running with a stored row while a
\* sibling task is still searching
C26_Witness ==
    /\ probe.fn = "api" /\ probe.reader = "get_job"
    /\ ~probe.response.raised
    /\ probe.response.value.status = "running"
    /\ Len(probe.response.value.state_results) >= 1
    /\ \E t \in DOMAIN tasks[probe.job_id] : tasks[probe.job_id][t].pc = "search"

\* C27 as stated: with every search, every call to the capability and every
\* commit coming back, by return or by failure, a job whose status has
\* become running reaches status complete or error.
C27_AsStated ==
    \A j \in JobIds :
        (j \in DOMAIN jobs /\ jobs[j].status = "running")
            ~> (j \in DOMAIN jobs /\ jobs[j].status \in {"complete", "error"})

-----------------------------------------------------------------------------
(* main.py get_entity_detail, adapters/detail/opencorporates.py, and the    *)
(* specification SpecDetail: a client asks for entity details one request   *)
(* after the other.  probe is [fn |-> "detail", cache, log]: cache is the    *)
(* table entity_detail_cache, a function from primary keys to rows; log      *)
(* lists each request with its response.  A text is the sequence of the      *)
(* pieces it is formatted of.  None is <<>>.                                 *)

\* the requests a client makes
MaxRequests == 3

DetailStateCodes == {"DE", "de", "NY"}

DetailFileNumbers == {"F1", "F2"}

\* f"https://opencorporates.com/companies/us_{state_code.lower()}/{file_number}"
OcUrl(state_code, file_number) ==
    <<"https://opencorporates.com/companies/us_", LowerTok(state_code), "/", file_number>>

\* what fetch_entity_detail returns for a company the registry of that
\* jurisdiction has under that number
FoundDetail(state_code, file_number) ==
    [entity_name |-> <<"Acme", Blank, "Group", Blank, UpperTok(state_code)>>,
     entity_kind |-> <<"LLC">>,
     formation_date |-> <<"2020">>,
     registered_agent |-> <<>>,
     opencorporates_url |-> OcUrl(state_code, file_number)]

\* what fetch_entity_detail returns on 404, another status, a timeout or an
\* exception
FailedDetail(state_code, file_number, message) ==
    [entity_name |-> <<>>, entity_kind |-> <<>>, formation_date |-> <<>>,
     registered_agent |-> <<>>,
     opencorporates_url |-> OcUrl(state_code, file_number),
     error |-> message]

\* fetch_entity_detail(state_code, file_number) against a registry that
\* answers, does not know the number, answers with another status, does not
\* answer in time, or whose answer makes the client raise
fetch_entity_detail(state_code, file_number) ==
    {FoundDetail(state_code, file_number),
     FailedDetail(state_code, file_number, <<"Entity #", file_number, " not found on OpenCorporates.">>),
     FailedDetail(state_code, file_number, <<"OpenCorporates returned HTTP ", "503", ".">>),
     FailedDetail(state_code, file_number, <<"Request to OpenCorporates timed out.">>),
     FailedDetail(state_code, file_number, <<"JSONDecodeError", ": ">>)}

\* a store that takes every detail
Cacheable_every_detail(detail) == TRUE

\* if "error" not in detail
Cacheable(detail) == "error" \notin DOMAIN detail

\* f"{state_code}:{file_number}"
CacheKey(state_code, file_number) == <<state_code, ":", file_number>>

\* the row get_entity_detail stores after a fetch without error
CacheRow(cache_key, state_code, detail) ==
    [file_number |-> cache_key, state_code |-> state_code,
     entity_name |-> detail.entity_name, entity_kind |-> detail.entity_kind,
     formation_date |-> detail.formation_date,
     registered_agent |-> detail.registered_agent]

\* the response built of a cached row
CachedResponse(cached, state_code, file_number) ==
    [file_number |-> cached.file_number, entity_name |-> cached.entity_name,
     entity_kind |-> cached.entity_kind, formation_date |-> cached.formation_date,
     registered_agent |-> cached.registered_agent,
     opencorporates_url |-> OcUrl(state_code, file_number),
     error |-> <<>>, cached |-> TRUE]

\* the response built of a fetched detail
FetchedResponse(detail, file_number) ==
    [file_number |-> <<file_number>>, entity_name |-> detail.entity_name,
     entity_kind |-> detail.entity_kind, formation_date |-> detail.formation_date,
     registered_agent |-> detail.registered_agent,
     opencorporates_url |-> detail.opencorporates_url,
     error |-> IF "error" \in DOMAIN detail THEN detail.error ELSE <<>>,
     cached |-> FALSE]

InitDetail ==
    /\ InitOrchIdle
    /\ probe = [fn |-> "detail", cache |-> <<>>, log |-> <<>>]

\* GET /api/entity/{state_code}/{file_number}
get_entity_detail(path_state_code, file_number) ==
    LET state_code == UpperTok(path_state_code)
        cache_key == CacheKey(state_code, file_number)
        Logged(response, fetched) ==
            Append(probe.log, [state_code |-> path_state_code,
                               file_number |-> file_number,
                               fetched |-> fetched, response |-> response])
    IN  /\ probe.fn = "detail" /\ Len(probe.log) < MaxRequests
        /\ IF cache_key \in DOMAIN probe.cache
           THEN probe' = [probe EXCEPT !.log =
                    Logged(CachedResponse(probe.cache[cache_key], state_code,
                                          file_number), FALSE)]
           ELSE \E detail \in fetch_entity_detail(state_code, file_number) :
                    probe' = [probe EXCEPT
                        !.log = Logged(FetchedResponse(detail, file_number), TRUE),
                        !.cache =
                            IF Cacheable(detail)
                            THEN [k \in DOMAIN probe.cache \cup {cache_key} |->
                                     IF k = cache_key
                                     THEN CacheRow(cache_key, state_code, detail)
                                     ELSE probe.cache[k]]
                            ELSE @]
        /\ UNCHANGED orch_vars

NextDetail ==
    \E sc \in DetailStateCodes : \E fn \in DetailFileNumbers :
        get_entity_detail(sc, fn)

SpecDetail == InitDetail /\ [][NextDetail]_vars

\* the fields of a response that the lookup is to repeat
DetailFields(response) ==
    <<response.file_number, response.entity_name, response.entity_kind,
      response.formation_date, response.registered_agent>>

\* C28 as stated: after a request for a key was answered by a fetch without
\* error, a later request for the same key is answered from the cache
\* without a fetch, with the same file_number, entity_name, entity_kind,
\* formation_date and registered_agent; a request for the same number under
\* another source id is not answered from that entry.
C28_AsStated ==
    probe.fn = "detail" =>
        \A a, b \in DOMAIN probe.log :
            LET first == probe.log[a]
                later == probe.log[b]
            IN  (/\ a < b
                 /\ first.fetched /\ first.response.error = <<>>
                 /\ later.file_number = first.file_number) =>
                    IF UpperTok(later.state_code) = UpperTok(first.state_code)
                    THEN /\ ~later.fetched /\ later.response.cached
                         /\ DetailFields(later.response) = DetailFields(first.response)
                    ELSE later.response.cached =>
                             later.response.entity_name # first.response.entity_name

-----------------------------------------------------------------------------
(* Claims about the store as the endpoints read it (SpecApi)                *)

\* the verdict of a result or of a row
Verdict(r) == <<r.availability, r.confidence, r.similar_names, r.notes>>

\* the events of the rows of state results a stream has sent, in order
StateEventsSent(events) ==
    SelectSeq(events, LAMBDA e : e.event = "state_result")

-----------------------------------------------------------------------------
(* Claims about the tasks run_search launches (Spec)                        *)

\* the tasks of job j that run the adapter registered under code
TasksOfSource(j, code) == {t \in StateTaskIds(j) : tasks[j][t].code = code}

Requested(j, code) == \E i \in DOMAIN jobs[j].states : jobs[j].states[i] = code

\* C30: once run_search has built its task list, every requested source id
\* with a registered adapter has exactly one task, there is exactly one
\* trademark task, no task and no stored row belongs to an id without a
\* registered adapter, and a run standing at run_search can always go on to
\* gather without raising.
C30_AsStated ==
    \A j \in DOMAIN jobs :
        /\ tasks[j] # <<>> =>
               /\ \A code \in STATE_ADAPTERS :
                      Requested(j, code) => Cardinality(TasksOfSource(j, code)) = 1
               /\ Cardinality(UsptoTaskIds(j)) = 1
               /\ \A t \in StateTaskIds(j) :
                      tasks[j][t].code \in STATE_ADAPTERS /\ Requested(j, tasks[j][t].code)
        /\ \A i \in DOMAIN state_results :
               state_results[i].job_id = j =>
                   state_results[i].state_code \in STATE_ADAPTERS
        /\ runner[j].pc = "run_search" =>
               ENABLED (run_search(j) /\ runner'[j].pc = "gather")

-----------------------------------------------------------------------------
(* Claims about the event stream (SpecApi)                                  *)

StreamRead == probe.fn = "api" /\ probe.reader = "stream"

\* the positions of the events of one kind in the stream
EventsAt(kind) == {k \in DOMAIN probe.events : probe.events[k].event = kind}

\* C31: once a stream has sent done, every state result row and the
\* trademark row stored for its job, then or at any later time, has its event
\* in the stream at a position before done.
C31_Complete ==
    (StreamRead /\ EventsAt("done") # {}) =>
        LET ids == StateRowsOf(probe.job_id)
            got == StateEventsSent(probe.events)
        IN  /\ Len(got) = Len(ids)
            /\ \A k \in DOMAIN ids : got[k].data = StateRowView(state_results[ids[k]])
            /\ \A i \in UsptoRowsOf(probe.job_id) :
                   \E k \in EventsAt("uspto_result") :
                       probe.events[k].data = UsptoRowView(uspto_results[i])
            /\ \A k \in EventsAt("state_result") \cup EventsAt("uspto_result") :
                   \A d \in EventsAt("done") : k < d

\* a stream that stood open while its job ran has sent a state result, the
\* trademark result and done
C31_Witness ==
    /\ StreamRead /\ ~probe.open
    /\ EventsAt("done") # {} /\ EventsAt("uspto_result") # {}
    /\ Cardinality(EventsAt("state_result")) >= 2
    /\ jobs[probe.job_id].status = "complete"

\* C32: a stream holds at most one event per stored state result row of its
\* job, at most one trademark event and at most one done; done, once sent, is
\* the last event and the stream is closed.
C32_AtMostOnce ==
    StreamRead =>
        /\ Cardinality(EventsAt("state_result")) <= Len(StateRowsOf(probe.job_id))
        /\ Cardinality(EventsAt("state_result")) =
               Cardinality({i \in DOMAIN state_results : <<"state", i>> \in probe.sent})
        /\ Cardinality(EventsAt("uspto_result")) <= 1
        /\ Cardinality(EventsAt("uspto_result")) <=
               Cardinality(UsptoRowsOf(probe.job_id))
        /\ Cardinality(EventsAt("done")) <= 1
        /\ \A d \in EventsAt("done") : d = Len(probe.events) /\ ~probe.open

\* a stream that polled more than once: a state result was sent in a round
\* after the one of the trademark event, and done closed the stream
C32_Witness ==
    /\ StreamRead /\ EventsAt("done") # {}
    /\ \E u \in EventsAt("uspto_result") :
           /\ \E k \in EventsAt("state_result") : k < u
           /\ \E k \in EventsAt("state_result") : u < k

-----------------------------------------------------------------------------
(* Claims about the end of a stream (SpecStream)                            *)

\* the stream was closed by done carrying status
DoneWith(status) ==
    /\ StreamRead /\ ~probe.open
    /\ probe.events # <<>>
    /\ probe.events[Len(probe.events)] = [event |-> "done", data |-> status]

\* C33: a stream read on a job whose status is complete or error comes to
\* send done with that status and to close; a stream on an id that names no
\* job comes to close, and a stream that sent the error event holds that one
\* event and is closed.
C33_Terminates ==
    /\ \A id \in JobIds : \A status \in {"complete", "error"} :
           (StreamRead /\ probe.job_id = id /\ id \in DOMAIN jobs
                /\ jobs[id].status = status)
               ~> DoneWith(status)
    /\ (StreamRead /\ probe.job_id = 0) ~> (StreamRead /\ ~probe.open)
    /\ [](StreamRead /\ EventsAt("error") # {} =>
             /\ probe.events = <<[event |-> "error", data |-> "Job not found"]>>
             /\ ~probe.open
             /\ probe.job_id \notin DOMAIN jobs)

\* a stream opened before its job ended in error was closed by done carrying
\* error
C33_Witness ==
    /\ DoneWith("error")
    /\ jobs[probe.job_id].status = "error"

-----------------------------------------------------------------------------
(* Claims about exact matches on a results page (SpecAdapter)               *)

\* C34 as stated: a browser adapter's search on a results page whose table
\* holds a row named as the searched name, trimmed and in upper case, returns
\* availability taken, whatever else the page shows.
C34_AsStated ==
    (/\ probe.fn = "search" /\ probe.called /\ probe.code # "CA"
     /\ ResultsPageRead(probe.site)
     /\ HasExact(ParsedRows(probe.code, probe.site), probe.search_name)) =>
        /\ ~probe.out.raised
        /\ probe.out.value.availability = "taken"

-----------------------------------------------------------------------------
(* main.py: requests of get_entity_detail in flight together (SpecRace).   *)
(* probe is [fn |-> "race", cache, reqs]: reqs[i] is a request with its     *)
(* path parameters, the await it stands at (pc), the detail it fetched and  *)
(* its response.                                                            *)

NumRequests == 2

RaceStateCodes == {"DE", "de"}

RaceRequests ==
    [state_code : RaceStateCodes, file_number : DetailFileNumbers,
     pc : {"get"}, detail : {<<>>}, response : {<<>>}]

InitRace ==
    /\ InitOrchIdle
    /\ probe \in [fn : {"race"}, cache : {<<>>}, reqs : [1..NumRequests -> RaceRequests]]

KeyOf(req) == CacheKey(UpperTok(req.state_code), req.file_number)

\* the request up to its first await: cached = await db.get(...), and the
\* response of a hit
get_entity_detail_get(i) ==
    LET req == probe.reqs[i]
    IN  /\ probe.fn = "race" /\ req.pc = "get"
        /\ probe' = [probe EXCEPT !.reqs[i] =
               IF KeyOf(req) \in DOMAIN probe.cache
               THEN [req EXCEPT !.pc = "done", !.response =
                        Returned(CachedResponse(probe.cache[KeyOf(req)],
                                                UpperTok(req.state_code),
                                                req.file_number))]
               ELSE [req EXCEPT !.pc = "fetch"]]
        /\ UNCHANGED orch_vars

\* detail = await fetch_entity_detail(state_code, file_number); a detail
\* with an error is returned without a store
get_entity_detail_fetch(i) ==
    LET req == probe.reqs[i]
    IN  /\ probe.fn = "race" /\ req.pc = "fetch"
        /\ \E detail \in fetch_entity_detail(UpperTok(req.state_code), req.file_number) :
               probe' = [probe EXCEPT !.reqs[i] =
                   IF ~Cacheable(detail)
                   THEN [req EXCEPT !.pc = "done", !.response =
                            Returned(FetchedResponse(detail, req.file_number))]
                   ELSE [req EXCEPT !.pc = "commit", !.detail = detail]]
        /\ UNCHANGED orch_vars

\* db.add(cache_row) and await db.commit(): the insert of a primary key the
\* table already holds raises
get_entity_detail_commit(i) ==
    LET req == probe.reqs[i]
        key == KeyOf(req)
    IN  /\ probe.fn = "race" /\ req.pc = "commit"
        /\ IF key \in DOMAIN probe.cache
           THEN probe' = [probe EXCEPT !.reqs[i] =
                    [req EXCEPT !.pc = "done", !.response = Raised("IntegrityError")]]
           ELSE probe' = [probe EXCEPT
                    !.cache = [k \in DOMAIN probe.cache \cup {key} |->
                                  IF k = key
                                  THEN CacheRow(key, UpperTok(req.state_code), req.detail)
                                  ELSE probe.cache[k]],
                    !.reqs[i] = [req EXCEPT !.pc = "done", !.response =
                                    Returned(FetchedResponse(req.detail, req.file_number))]]
        /\ UNCHANGED orch_vars

NextRace ==
    \/ \E i \in 1..NumRequests : get_entity_detail_get(i)
    \/ \E i \in 1..NumRequests : get_entity_detail_fetch(i)
    \/ \E i \in 1..NumRequests : get_entity_detail_commit(i)

SpecRace == InitRace /\ [][NextRace]_vars

\* C35 as stated: of two requests for one key that both found the cache
\* empty and both fetched a detail without error, both end with a response
\* and neither with an exception, and the cache holds one row for the key.
C35_AsStated ==
    probe.fn = "race" =>
        \A a, b \in 1..NumRequests :
            LET ra == probe.reqs[a]
                rb == probe.reqs[b]
            IN  (/\ a # b /\ KeyOf(ra) = KeyOf(rb)
                 /\ ra.pc = "done" /\ rb.pc = "done"
                 /\ ra.detail # <<>> /\ rb.detail # <<>>) =>
                    /\ ~ra.response.raised /\ ~rb.response.raised
                    /\ KeyOf(ra) \in DOMAIN probe.cache

-----------------------------------------------------------------------------
(* Claims about what the entity detail cache holds (SpecDetail)             *)

\* the key of a logged request
LoggedKey(entry) == CacheKey(UpperTok(entry.state_code), entry.file_number)

\* the logged request was answered by a fetch that returned no error
FetchedWell(entry) == entry.fetched /\ entry.response.error = <<>>

\* C36: the cache holds a row for exactly the keys a fetch without error was
\* logged for, with the fields that fetch returned; a request calls the fetch
\* exactly when no earlier request for its key fetched without error, so a
\* fetch with an error is followed by another fetch and a hit by none.
C36_OnlySuccesses ==
    probe.fn = "detail" =>
        /\ DOMAIN probe.cache =
               {LoggedKey(probe.log[a]) : a \in {b \in DOMAIN probe.log : FetchedWell(probe.log[b])}}
        /\ \A a \in DOMAIN probe.log :
               FetchedWell(probe.log[a]) =>
                   LET row == probe.cache[LoggedKey(probe.log[a])]
                       response == probe.log[a].response
                   IN  <<row.entity_name, row.entity_kind, row.formation_date,
                         row.registered_agent>> =
                       <<response.entity_name, response.entity_kind,
                         response.formation_date, response.registered_agent>>
        /\ \A b \in DOMAIN probe.log :
               /\ probe.log[b].fetched <=>
                      ~\E a \in 1..(b - 1) :
                           /\ LoggedKey(probe.log[a]) = LoggedKey(probe.log[b])
                           /\ FetchedWell(probe.log[a])
               /\ probe.log[b].fetched <=> ~probe.log[b].response.cached

\* a fetch that timed out, a second fetch for the same key that answered, and
\* a third request for it served by the cache
C36_Witness ==
    /\ probe.fn = "detail" /\ Len(probe.log) = 3
    /\ LoggedKey(probe.log[1]) = LoggedKey(probe.log[2])
    /\ LoggedKey(probe.log[2]) = LoggedKey(probe.log[3])
    /\ probe.log[1].fetched
    /\ probe.log[1].response.error = <<"Request to OpenCorporates timed out.">>
    /\ FetchedWell(probe.log[2])
    /\ probe.log[3].response.cached

-----------------------------------------------------------------------------
(* Claims about the stored rows of similar results (Spec)                   *)

\* C37 as stated: every stored row whose availability is similar has a
\* non-empty similar_names list and exactly one flag tagged [SIMILARITY],
\* whichever tier its result came from.
C37_AsStated ==
    \A i \in DOMAIN state_results :
        state_results[i].availability = "similar" =>
            /\ state_results[i].similar_names # <<>>
            /\ SimilarityFlagCount(state_results[i].flags) = 1

-----------------------------------------------------------------------------
(* Claims about the worker slots of the executors (SpecPool)                *)

\* the searches whose caller still awaits search()
Awaited(s) == {i \in PoolSearches : s[i].coro = "waiting"}

\* C38 as stated: a search that has returned to its caller, by result or by
\* the timeout, occupies no worker of the executor: the workers that are
\* running a search are never more than the searches still awaited.
C38_AsStated ==
    probe.fn = "pool" =>
        /\ Running(probe.s) \subseteq Awaited(probe.s)
        /\ Cardinality(Running(probe.s)) <= Cardinality(Awaited(probe.s))

-----------------------------------------------------------------------------
(* Claims about the done event and completed_at (Spec)                      *)

\* _run_and_signal of job j has started run_search and has left its try
\* statement
LeftTry(j) ==
    /\ runner[j].pc \in {"complete", "returned", "crashed"}
    /\ jobs[j].status # "pending"

\* C39 as stated: a job whose done event is set has the stored status
\* complete or error; and once _run_and_signal has started run_search and left
\* its try statement, by return or by exception, the done event is set and the
\* job is out of the map of active jobs.
C39_AsStated ==
    \A j \in DOMAIN jobs :
        /\ j \in done_events => jobs[j].status \in {"complete", "error"}
        /\ LeftTry(j) => j \in done_events /\ j \notin active_jobs

\* C40: a job's completed_at is set exactly when its status is complete or
\* error, and every step that changes one of the two writes the terminal
\* status and completed_at together.
C40_CompletedAt ==
    /\ [](\A j \in DOMAIN jobs :
              jobs[j].completed_at <=> jobs[j].status \in {"complete", "error"})
    /\ [][\A j \in DOMAIN jobs :
              (jobs'[j].completed_at # jobs[j].completed_at) =>
                  /\ jobs[j].status \in {"pending", "running"}
                  /\ jobs'[j].status \in {"complete", "error"}
                  /\ jobs'[j].completed_at]_vars

\* a job came to error with completed_at written, after it had been running
C40_Witness ==
    \E j \in DOMAIN jobs :
        /\ jobs[j].status = "error" /\ jobs[j].completed_at
        /\ runner[j].pc = "returned"
====
